---- MODULE Spec2Model ----
(***************************************************************************)
(* Slot-machine Monte Carlo simulation (templates/math_simulation.py),     *)
(* the reel-strip RTP optimizer (tools/tier1_upgrades.py, the script that  *)
(* PaytableOptimizerTool._run generates) and the player-behaviour script   *)
(* of PlayerBehaviorModelTool._run: its session loop and its analysis.     *)
(*                                                                         *)
(* Money is counted in hundredths of the unit bet, so a paytable entry of  *)
(* 0.40 in the source is 40 here and an RTP in percent is                  *)
(* total_won / total_wagered with total_won in hundredths.  Quotients are  *)
(* kept exact as records [num, den].                                       *)
(***************************************************************************)
EXTENDS Integers, Sequences, FiniteSets, TLC

\* ------------------------------------------------------------------------
\* Bounds of the model
\* ------------------------------------------------------------------------
\* largest num_spins passed to run_simulation
MaxSpins == 2
\* free spins played in one cascade before the model stops following it
MaxFreeSpins == 2
\* calls of run_simulation followed in one process
MaxRuns == 3

\* ------------------------------------------------------------------------
\* Configuration of math_simulation.py (filled in per game)
\* ------------------------------------------------------------------------
NUM_REELS == 4
NUM_ROWS == 2
WILD_SYMBOL == "WD"
SCATTER_SYMBOL == "SC"

\* X is a blank: a symbol on the reels that the paytable does not list
REEL_STRIPS ==
  << <<"WD">>,
     <<"A", "SC", "X">>,
     <<"A", "A", "SC">>,
     <<"A", "SC", "X">> >>

\* the configuration the module was filled in with
DefaultModel ==
  [NUM_REELS |-> NUM_REELS, NUM_ROWS |-> NUM_ROWS, REEL_STRIPS |-> REEL_STRIPS]

\* scatter count -> free spins awarded
FREE_SPIN_TRIGGER == (2 :> 1) @@ (3 :> 1) @@ (4 :> 2)
FREE_SPIN_MULTIPLIER == 3

\* the empty dict {}
EmptyDict == [x \in {} |-> 0]

\* symbol -> (count -> multiplier).  GamePaytable is the paytable of the game
\* that run_simulation is followed on.
GamePaytable ==
  [s \in {"A", "WD", "SC"} |->
     CASE s = "A" -> (3 :> 25) @@ (4 :> 25000)
       [] OTHER   -> EmptyDict]

\* Paytables the evaluators are applied to.  PaytablePlain leaves wild and
\* scatter empty as the template does, gives B an entry for 2 and none for 4;
\* PaytableOdd gives wild and scatter entries of their own, gives A entries
\* for 2 and 3 and none for 4, and B entries for 2 and 4 and none for 3.
PaytablePlain ==
  [s \in {"A", "B", "WD", "SC"} |->
     CASE s = "A" -> (3 :> 100) @@ (4 :> 500)
       [] s = "B" -> (2 :> 70) @@ (3 :> 50)
       [] OTHER   -> EmptyDict]

PaytableOdd ==
  [s \in {"A", "B", "WD", "SC"} |->
     CASE s = "A"  -> (2 :> 30) @@ (3 :> 12500)
       [] s = "B"  -> (2 :> 100) @@ (4 :> 10000)
       [] s = "WD" -> (3 :> 1000) @@ (4 :> 1000)
       [] OTHER    -> (3 :> 500)]

Paytables == {PaytablePlain, PaytableOdd}

\* the symbols the evaluated grids are made of
Symbols == {"A", "B", "WD", "SC"}

Grids == [1..NUM_REELS -> [1..NUM_ROWS -> Symbols]]

VARIABLES
  PAYTABLE,             \* the paytable of this game
  FREE_SPIN_RETRIGGER,  \* the retrigger flag of this game
  pc,                   \* where run_simulation is: loop, spun, free, track,
                        \* done, raised (eval, evaluated: the evaluators alone)
  num_spins,            \* the argument of run_simulation
  i,                    \* loop index of the base-spin loop
  stats,                \* SimulationStats
  grid,                 \* run_simulation: the grid of the base spin
  base_win,             \* evaluate_ways_win of the base spin
  scatter_count,        \* count_scatters of the base spin
  total_spin_win,       \* the total of the base spin in progress
  remaining,            \* run_free_spins: free spins left
  fs_total_win,         \* run_free_spins: total_win
  fs_played,            \* free spins played in the cascade in progress
  rng,                  \* state of the process-wide numpy generator
  runs                  \* what each finished call of run_simulation produced

\* NUM_REELS, NUM_ROWS and REEL_STRIPS as the module was filled in
VARIABLE model

simVars == <<PAYTABLE, FREE_SPIN_RETRIGGER, pc, num_spins, i, stats, grid,
             base_win, scatter_count, total_spin_win, remaining, fs_total_win,
             fs_played, rng, runs, model>>

\* The optimizer script of PaytableOptimizerTool._run
VARIABLES
  cfg,             \* its inputs: TARGET_RTP, TOLERANCE, MAX_ITERS, SPINS, COLS,
                   \* ROWS, paytable
  opt_pc,          \* where the script is: loop, measured, final, done (idle:
                   \* no optimizer run is followed)
  opt_i,           \* the loop variable i
  reel_strips,     \* the working reel strips
  rtp,             \* the RTP measured by the last batch
  deviation,       \* abs(rtp - TARGET_RTP) of the last batch
  history,         \* one entry per batch
  simulated,       \* history variable: the strips each batch was simulated on
  best_reels,
  best_deviation,
  result           \* the result printed at the end

\* the list object that adjust_reels was last given as its parameter reels, as
\* it is after the call (before any call: the strips as loaded at line 248)
VARIABLE given_reels

optVars == <<cfg, opt_pc, opt_i, reel_strips, rtp, deviation, history,
             simulated, best_reels, best_deviation, result, given_reels>>

\* The player-behaviour script of PlayerBehaviorModelTool._run: where it is
\* (pc), and either its session loop (the arguments, the variables of the
\* session in progress, the sessions recorded) or its analysis (the session
\* aggregates and what the analysis derives from them)
VARIABLE player

vars == <<simVars, optVars, player>>

\* ------------------------------------------------------------------------
\* spin_reels
\* ------------------------------------------------------------------------
\* one start_pos per reel, each in 0 .. len(strip)-1
StartPositions ==
  {st \in [1..NUM_REELS -> 0..2] :
     \A r \in 1..NUM_REELS : st[r] < Len(REEL_STRIPS[r])}

SpinReels(starts) ==
  [r \in 1..NUM_REELS |->
     [row \in 1..NUM_ROWS |->
        LET strip == REEL_STRIPS[r]
            pos == (starts[r] + (row - 1)) % Len(strip)
        IN strip[pos + 1]]]

\* ------------------------------------------------------------------------
\* evaluate_ways_win
\* ------------------------------------------------------------------------
\* (variant: the wild is evaluated like any other symbol of the paytable)
PayingSymbolsWithWild(pt) ==
  {s \in DOMAIN pt : s # SCATTER_SYMBOL /\ DOMAIN pt[s] # {}}

PayingSymbols(pt) ==
  {s \in DOMAIN pt :
     s \notin {WILD_SYMBOL, SCATTER_SYMBOL} /\ DOMAIN pt[s] # {}}

\* sum(1 for row in range(NUM_ROWS) if cell == symbol or cell == WILD_SYMBOL)
RECURSIVE ReelCountFrom(_, _, _, _)
ReelCountFrom(g, reel, symbol, row) ==
  IF row > NUM_ROWS THEN 0
  ELSE (IF g[reel][row] = symbol \/ g[reel][row] = WILD_SYMBOL THEN 1 ELSE 0)
         + ReelCountFrom(g, reel, symbol, row + 1)

ReelCount(g, reel, symbol) == ReelCountFrom(g, reel, symbol, 1)

\* the reel loop: counts_per_reel up to the first reel with no match
RECURSIVE CountsPerReel(_, _, _)
CountsPerReel(g, symbol, reel) ==
  IF reel > NUM_REELS THEN << >>
  ELSE LET count == ReelCount(g, reel, symbol)
       IN IF count > 0
          THEN <<count>> \o CountsPerReel(g, symbol, reel + 1)
          ELSE << >>

\* (variant: the lengths are tried shortest first)
PaidLengthShortestFirst(pays, length) ==
  LET present == {l \in 3..length : l \in DOMAIN pays}
  IN IF present = {} THEN 0
     ELSE CHOOSE l \in present : \A m \in present : l <= m

\* for length in range(consecutive_reels, 2, -1): first length in the paytable
RECURSIVE PaidLength(_, _)
PaidLength(pays, length) ==
  IF length <= 2 THEN 0
  ELSE IF length \in DOMAIN pays THEN length
       ELSE PaidLength(pays, length - 1)

\* ways = counts_per_reel[0] * ... * counts_per_reel[length-1]
RECURSIVE Ways(_, _)
Ways(counts_per_reel, length) ==
  IF length = 0 THEN 1
  ELSE Ways(counts_per_reel, length - 1) * counts_per_reel[length]

\* (variant: a run of two reels is long enough to pay)
SymbolWinFromTwo(g, pt, symbol) ==
  LET counts_per_reel == CountsPerReel(g, symbol, 1)
      consecutive_reels == Len(counts_per_reel)
      present == {l \in 2..consecutive_reels : l \in DOMAIN pt[symbol]}
  IN IF present = {} THEN 0
     ELSE LET length == CHOOSE l \in present : \A m \in present : m <= l
          IN pt[symbol][length] * Ways(counts_per_reel, length)

SymbolWin(g, pt, symbol) ==
  LET counts_per_reel == CountsPerReel(g, symbol, 1)
      consecutive_reels == Len(counts_per_reel)
  IN IF consecutive_reels < 3 THEN 0
     ELSE LET length == PaidLength(pt[symbol], consecutive_reels)
          IN IF length = 0 THEN 0
             ELSE pt[symbol][length] * Ways(counts_per_reel, length)

RECURSIVE SumWins(_, _, _)
SumWins(g, pt, symbols) ==
  IF symbols = {} THEN 0
  ELSE LET s == CHOOSE x \in symbols : TRUE
       IN SymbolWin(g, pt, s) + SumWins(g, pt, symbols \ {s})

EvaluateWaysWin(g, pt) == SumWins(g, pt, PayingSymbols(pt))

\* ------------------------------------------------------------------------
\* count_scatters
\* ------------------------------------------------------------------------
RECURSIVE CountScattersFrom(_, _, _)
CountScattersFrom(g, reel, row) ==
  IF reel > NUM_REELS THEN 0
  ELSE IF row > NUM_ROWS THEN CountScattersFrom(g, reel + 1, 1)
  ELSE (IF g[reel][row] = SCATTER_SYMBOL THEN 1 ELSE 0)
         + CountScattersFrom(g, reel, row + 1)

CountScatters(g) == CountScattersFrom(g, 1, 1)

\* scatter_count >= 3 and scatter_count in FREE_SPIN_TRIGGER
Triggers(sc_count) == sc_count >= 3 /\ sc_count \in DOMAIN FREE_SPIN_TRIGGER

\* ------------------------------------------------------------------------
\* categorize_win
\* ------------------------------------------------------------------------
\* (variant: a win on a boundary stays in the lower bucket)
CategorizeWinInclusive(win_amount) ==
  IF win_amount = 0 THEN "0x"
  ELSE IF win_amount <= 100 THEN "0-1x"
  ELSE IF win_amount <= 200 THEN "1-2x"
  ELSE IF win_amount <= 500 THEN "2-5x"
  ELSE IF win_amount <= 2000 THEN "5-20x"
  ELSE IF win_amount <= 10000 THEN "20-100x"
  ELSE IF win_amount <= 100000 THEN "100-1000x"
  ELSE "1000x+"

CategorizeWin(win_amount) ==
  IF win_amount = 0 THEN "0x"
  ELSE IF win_amount < 100 THEN "0-1x"
  ELSE IF win_amount < 200 THEN "1-2x"
  ELSE IF win_amount < 500 THEN "2-5x"
  ELSE IF win_amount < 2000 THEN "5-20x"
  ELSE IF win_amount < 10000 THEN "20-100x"
  ELSE IF win_amount < 100000 THEN "100-1000x"
  ELSE "1000x+"

\* ------------------------------------------------------------------------
\* the numpy generator: np.random.seed, np.random.randint
\* ------------------------------------------------------------------------
\* The generator is a deterministic machine: a state, a step per draw, and a
\* draw that is a function of the state.  A small linear congruential
\* generator of full period stands for numpy's.
SEED == 42

RngSeed(seed) == seed % 256

RngStep(g) == (g * 37 + 11) % 256

RECURSIVE RngAdvance(_, _)
RngAdvance(g, draws) ==
  IF draws = 0 THEN g ELSE RngAdvance(RngStep(g), draws - 1)

\* np.random.randint(0, n) drawn in generator state g
Randint(g, n) == (g \div 16) % n

\* the start positions spin_reels draws, reel by reel, from generator state g
RngStarts(g) ==
  [r \in 1..NUM_REELS |->
     Randint(RngAdvance(g, r), Len(REEL_STRIPS[r]))]

\* ------------------------------------------------------------------------
\* run_simulation
\* ------------------------------------------------------------------------
bet_per_spin == 1

NewStats ==
  [total_spins |-> 0, total_wagered |-> 0, total_won |-> 0,
   base_game_won |-> 0, feature_won |-> 0, wins |-> 0,
   free_spin_triggers |-> 0, free_spins_played |-> 0, max_win |-> 0,
   win_distribution |-> EmptyDict]

\* an exact quotient num / den
Quot(n, d) == [num |-> n, den |-> d]

Max(a, b) == IF a >= b THEN a ELSE b

\* win_distribution[bucket] += 1 on a defaultdict(int)
Increment(dist, bucket) ==
  IF bucket \in DOMAIN dist
  THEN [dist EXCEPT ![bucket] = @ + 1]
  ELSE dist @@ (bucket :> 1)

\* no optimizer run is followed
OptIdle ==
  /\ cfg = EmptyDict
  /\ opt_pc = "idle"
  /\ opt_i = 0
  /\ reel_strips = << >>
  /\ rtp = Quot(0, 1)
  /\ deviation = Quot(0, 1)
  /\ history = << >>
  /\ simulated = << >>
  /\ best_reels = << >>
  /\ best_deviation = Quot(0, 1)
  /\ result = EmptyDict
  /\ given_reels = << >>

Init ==
  /\ OptIdle
  /\ player = [pc |-> "idle"]
  /\ model = DefaultModel
  /\ PAYTABLE = GamePaytable
  /\ FREE_SPIN_RETRIGGER \in BOOLEAN
  /\ num_spins \in 0..MaxSpins
  /\ pc = "loop"
  /\ i = 0
  /\ stats = NewStats
  /\ grid = << >>
  /\ base_win = 0
  /\ scatter_count = 0
  /\ total_spin_win = 0
  /\ remaining = 0
  /\ fs_total_win = 0
  /\ fs_played = 0
  /\ rng = RngSeed(SEED)
  /\ runs = << >>

\* lines 259-270: the bet is taken, the reels are spun, the base win is
\* evaluated and the scatters are counted
BaseSpin(starts) ==
  /\ UNCHANGED <<model, optVars, player>>
  /\ pc = "loop"
  /\ i < num_spins
  /\ LET g == SpinReels(starts)
         win == EvaluateWaysWin(g, PAYTABLE)
     IN /\ grid' = g
        /\ base_win' = win
        /\ total_spin_win' = win
        /\ scatter_count' = CountScatters(g)
        /\ stats' = [stats EXCEPT
                       !.total_spins = @ + 1,
                       !.total_wagered = @ + bet_per_spin,
                       !.base_game_won = @ + win]
  /\ pc' = "spun"
  /\ UNCHANGED <<PAYTABLE, FREE_SPIN_RETRIGGER, num_spins, i, remaining,
                 fs_total_win, fs_played, runs>>

\* lines 271-275: the trigger check, up to the call of run_free_spins
CheckFeature ==
  /\ UNCHANGED <<model, optVars, player>>
  /\ pc = "spun"
  /\ IF Triggers(scatter_count)
     THEN LET num_free_spins == FREE_SPIN_TRIGGER[scatter_count]
          IN /\ stats' = [stats EXCEPT
                            !.free_spin_triggers = @ + 1,
                            !.free_spins_played = @ + num_free_spins]
             /\ remaining' = num_free_spins
             /\ pc' = "free"
     ELSE /\ pc' = "track"
          /\ UNCHANGED <<stats, remaining>>
  /\ fs_total_win' = 0
  /\ fs_played' = 0
  \* run_simulation reads none of these again in this iteration
  /\ grid' = << >>
  /\ base_win' = 0
  /\ scatter_count' = 0
  /\ UNCHANGED <<PAYTABLE, FREE_SPIN_RETRIGGER, num_spins, i, total_spin_win,
                 rng, runs>>

\* (variant: a free spin is counted as a spin)
FreeSpinCounted(starts) ==
  /\ UNCHANGED <<model, optVars, player>>
  /\ pc = "free"
  /\ remaining > 0
  /\ fs_played < MaxFreeSpins
  /\ LET g == SpinReels(starts)
         win == EvaluateWaysWin(g, PAYTABLE) * FREE_SPIN_MULTIPLIER
         sc_count == CountScatters(g)
         award == IF FREE_SPIN_RETRIGGER /\ Triggers(sc_count)
                  THEN FREE_SPIN_TRIGGER[sc_count] ELSE 0
     IN /\ fs_total_win' = fs_total_win + win
        /\ remaining' = (remaining - 1) + award
  /\ fs_played' = fs_played + 1
  /\ stats' = [stats EXCEPT !.total_spins = @ + 1]
  /\ UNCHANGED <<PAYTABLE, FREE_SPIN_RETRIGGER, pc, num_spins, i,
                 grid, base_win, scatter_count, total_spin_win, runs>>

\* lines 205-215: one pass of the while loop of run_free_spins
FreeSpin(starts) ==
  /\ UNCHANGED <<model, optVars, player>>
  /\ pc = "free"
  /\ remaining > 0
  /\ fs_played < MaxFreeSpins
  /\ LET g == SpinReels(starts)
         win == EvaluateWaysWin(g, PAYTABLE) * FREE_SPIN_MULTIPLIER
         sc_count == CountScatters(g)
         award == IF FREE_SPIN_RETRIGGER /\ Triggers(sc_count)
                  THEN FREE_SPIN_TRIGGER[sc_count] ELSE 0
     IN /\ fs_total_win' = fs_total_win + win
        /\ remaining' = (remaining - 1) + award
  /\ fs_played' = fs_played + 1
  \* grid here is the local of run_free_spins; run_simulation's is untouched
  /\ UNCHANGED <<PAYTABLE, FREE_SPIN_RETRIGGER, pc, num_spins, i, stats,
                 grid, base_win, scatter_count, total_spin_win, runs>>

\* (variant: the feature win takes the place of the base win)
FreeSpinsReturnReplacing ==
  /\ UNCHANGED <<model, optVars, player>>
  /\ pc = "free"
  /\ ~(remaining > 0)
  /\ stats' = [stats EXCEPT !.feature_won = @ + fs_total_win]
  /\ total_spin_win' = fs_total_win
  /\ pc' = "track"
  /\ UNCHANGED <<PAYTABLE, FREE_SPIN_RETRIGGER, num_spins, i, grid, base_win,
                 scatter_count, remaining, fs_total_win, fs_played, rng, runs>>

\* lines 217, 275-277: run_free_spins returns and the feature win is added
FreeSpinsReturn ==
  /\ UNCHANGED <<model, optVars, player>>
  /\ pc = "free"
  /\ ~(remaining > 0)
  /\ stats' = [stats EXCEPT !.feature_won = @ + fs_total_win]
  /\ total_spin_win' = total_spin_win + fs_total_win
  /\ pc' = "track"
  /\ UNCHANGED <<PAYTABLE, FREE_SPIN_RETRIGGER, num_spins, i, grid, base_win,
                 scatter_count, remaining, fs_total_win, fs_played, rng, runs>>

\* lines 279-284: the spin's total is taken into the statistics
TrackStats ==
  /\ UNCHANGED <<model, optVars, player>>
  /\ pc = "track"
  /\ stats' = [stats EXCEPT
                 !.wins = IF total_spin_win > 0 THEN @ + 1 ELSE @,
                 !.total_won = @ + total_spin_win,
                 !.max_win = Max(@, total_spin_win),
                 !.win_distribution = Increment(@, CategorizeWin(total_spin_win))]
  /\ i' = i + 1
  /\ pc' = "loop"
  \* the locals of the iteration are dead: the next one assigns them anew
  /\ total_spin_win' = 0
  /\ remaining' = 0
  /\ fs_total_win' = 0
  /\ fs_played' = 0
  /\ UNCHANGED <<PAYTABLE, FREE_SPIN_RETRIGGER, num_spins, grid, base_win,
                 scatter_count, rng, runs>>

Sign(x) == IF x > 0 THEN 1 ELSE IF x < 0 THEN -1 ELSE 0

\* line 312: the sign of measured_rtp * (100 - measured_rtp) / total_spins,
\* with measured_rtp = total_won / total_wagered (percent) and both
\* total_wagered and total_spins positive
RadicandSign(st) ==
  Sign(st.total_won) * Sign(100 * st.total_wagered - st.total_won)

\* lines 312-314: np.sqrt of a negative number is nan (numpy warns and goes
\* on), and then so are ci_margin and both ends of rtp_ci; otherwise
\* ci_margin is 2.576 times a square root, a number that is not negative
RtpCi(st) ==
  IF RadicandSign(st) < 0
  THEN [low |-> "nan", high |-> "nan"]
  ELSE [low |-> "measured_rtp - ci_margin", high |-> "measured_rtp + ci_margin"]

\* lines 287-358: the results dictionary (the fields this model follows)
Results(st, n) ==
  [outcome |-> "returned",
   rtp_confidence_interval_99 |-> RtpCi(st),
   total_spins |-> n,
   measured_rtp |-> Quot(st.total_won, st.total_wagered),
   hit_frequency_pct |-> Quot(st.wins * 100, st.total_spins),
   base_game_rtp |-> Quot(st.base_game_won, st.total_wagered),
   feature_rtp |-> Quot(st.feature_won, st.total_wagered),
   max_win_achieved |-> st.max_win,
   free_spin_triggers |-> st.free_spin_triggers,
   free_spins_played |-> st.free_spins_played,
   win_distribution |->
     [b \in DOMAIN st.win_distribution |->
        Quot(st.win_distribution[b] * 100, st.total_spins)],
   total_wagered |-> st.total_wagered,
   total_won |-> st.total_won,
   total_wins |-> st.wins,
   total_losses |-> st.total_spins - st.wins]

\* line 287 divides by stats.total_wagered with no guard
Raised == [outcome |-> "ZeroDivisionError"]

\* lines 286-372: the loop is over, the final metrics are computed
Finalize ==
  /\ UNCHANGED <<model, optVars, player>>
  /\ pc = "loop"
  /\ ~(i < num_spins)
  /\ IF stats.total_wagered = 0
     THEN /\ pc' = "raised"
          /\ runs' = Append(runs, Raised)
     ELSE /\ pc' = "done"
          /\ runs' = Append(runs, Results(stats, num_spins))
  /\ UNCHANGED <<PAYTABLE, FREE_SPIN_RETRIGGER, num_spins, i, stats, grid,
                 base_win, scatter_count, total_spin_win, remaining,
                 fs_total_win, fs_played, rng>>

\* the draws of one spin are arbitrary start positions
Spin == \E starts \in StartPositions : BaseSpin(starts) /\ UNCHANGED rng

FeatureSpin == \E starts \in StartPositions : FreeSpin(starts) /\ UNCHANGED rng

Next ==
  Spin \/ CheckFeature \/ FeatureSpin \/ FreeSpinsReturn \/ TrackStats
    \/ Finalize

Spec == Init /\ [][Next]_vars

\* ------------------------------------------------------------------------
\* run_simulation called repeatedly in one process, draws from the generator
\* ------------------------------------------------------------------------
SeededSpin ==
  /\ BaseSpin(RngStarts(rng))
  /\ rng' = RngAdvance(rng, NUM_REELS)

SeededFeatureSpin ==
  /\ FreeSpin(RngStarts(rng))
  /\ rng' = RngAdvance(rng, NUM_REELS)

\* the caller calls run_simulation(num_spins) again: line 249 makes new
\* statistics; nothing in run_simulation touches the generator
CallAgain ==
  /\ UNCHANGED <<model, optVars, player>>
  /\ pc \in {"done", "raised"}
  /\ Len(runs) < MaxRuns
  /\ pc' = "loop"
  /\ i' = 0
  /\ stats' = NewStats
  /\ UNCHANGED <<PAYTABLE, FREE_SPIN_RETRIGGER, num_spins, grid, base_win,
                 scatter_count, total_spin_win, remaining, fs_total_win,
                 fs_played, rng, runs>>

NextRepeat ==
  SeededSpin \/ CheckFeature \/ SeededFeatureSpin \/ FreeSpinsReturn
    \/ TrackStats \/ Finalize \/ CallAgain

SpecRepeat == Init /\ [][NextRepeat]_vars

\* ------------------------------------------------------------------------
\* evaluate_ways_win and count_scatters applied to every grid
\* ------------------------------------------------------------------------
InitEval ==
  /\ OptIdle
  /\ player = [pc |-> "idle"]
  /\ model = DefaultModel
  /\ PAYTABLE \in Paytables
  /\ grid \in Grids
  /\ pc = "eval"
  /\ FREE_SPIN_RETRIGGER = TRUE
  /\ num_spins = 0
  /\ i = 0
  /\ stats = NewStats
  /\ base_win = 0
  /\ scatter_count = 0
  /\ total_spin_win = 0
  /\ remaining = 0
  /\ fs_total_win = 0
  /\ fs_played = 0
  /\ rng = RngSeed(SEED)
  /\ runs = << >>

\* lines 264 and 270 on the given grid
Evaluate ==
  /\ UNCHANGED <<model, optVars, player>>
  /\ pc = "eval"
  /\ base_win' = EvaluateWaysWin(grid, PAYTABLE)
  /\ scatter_count' = CountScatters(grid)
  /\ pc' = "evaluated"
  /\ UNCHANGED <<PAYTABLE, FREE_SPIN_RETRIGGER, num_spins, i, stats, grid,
                 total_spin_win, remaining, fs_total_win, fs_played, rng, runs>>

NextEval == Evaluate

SpecEval == InitEval /\ [][NextEval]_vars

\* ========================================================================
\* run_simulation under configurations that are not well formed
\* ========================================================================
\* the third reel strip is empty
EmptyStripModel ==
  [DefaultModel EXCEPT !.REEL_STRIPS = [REEL_STRIPS EXCEPT ![3] = << >>]]

NoReelsModel == [DefaultModel EXCEPT !.NUM_REELS = 0]

NoRowsModel == [DefaultModel EXCEPT !.NUM_ROWS = 0]

\* a paytable with an entry for Z, a symbol on no reel strip
UndefinedSymbolPaytable == GamePaytable @@ ("Z" :> (3 :> 100))

\* the (configuration, paytable) pairs that run_simulation is followed on
Configurations ==
  { <<DefaultModel, GamePaytable>>, <<DefaultModel, UndefinedSymbolPaytable>>,
    <<EmptyStripModel, GamePaytable>>, <<NoReelsModel, GamePaytable>>,
    <<NoRowsModel, GamePaytable>> }

\* lines 132-134: np.random.randint(0, 0) raises ValueError on the first
\* reel whose strip is empty
SpinRaises(m) ==
  \E r \in 1..m.NUM_REELS : Len(m.REEL_STRIPS[r]) = 0

\* line 134: one start_pos per reel
StartPositionsOf(m) ==
  {st \in [1..m.NUM_REELS -> 0..2] :
     \A r \in 1..m.NUM_REELS : st[r] < Len(m.REEL_STRIPS[r])}

\* (variant: a column stops at the end of its strip instead of wrapping)
SpinReelsOfClamped(m, starts) ==
  [r \in 1..m.NUM_REELS |->
     [row \in 1..m.NUM_ROWS |->
        LET strip == m.REEL_STRIPS[r]
            pos == starts[r] + (row - 1)
        IN strip[(IF pos < Len(strip) THEN pos ELSE Len(strip) - 1) + 1]]]

\* lines 129-141
SpinReelsOf(m, starts) ==
  [r \in 1..m.NUM_REELS |->
     [row \in 1..m.NUM_ROWS |->
        LET strip == m.REEL_STRIPS[r]
            pos == (starts[r] + (row - 1)) % Len(strip)
        IN strip[pos + 1]]]

\* lines 161-164
ReelCountOf(m, g, reel, symbol) ==
  Cardinality({row \in 1..m.NUM_ROWS :
                 g[reel][row] = symbol \/ g[reel][row] = WILD_SYMBOL})

\* lines 160-169
RECURSIVE CountsPerReelOf(_, _, _, _)
CountsPerReelOf(m, g, symbol, reel) ==
  IF reel > m.NUM_REELS THEN << >>
  ELSE LET count == ReelCountOf(m, g, reel, symbol)
       IN IF count > 0
          THEN <<count>> \o CountsPerReelOf(m, g, symbol, reel + 1)
          ELSE << >>

\* lines 155-182
SymbolWinOf(m, g, pt, symbol) ==
  LET counts_per_reel == CountsPerReelOf(m, g, symbol, 1)
      consecutive_reels == Len(counts_per_reel)
  IN IF consecutive_reels < 3 THEN 0
     ELSE LET length == PaidLength(pt[symbol], consecutive_reels)
          IN IF length = 0 THEN 0
             ELSE pt[symbol][length] * Ways(counts_per_reel, length)

RECURSIVE SumWinsOf(_, _, _, _)
SumWinsOf(m, g, pt, symbols) ==
  IF symbols = {} THEN 0
  ELSE LET s == CHOOSE x \in symbols : TRUE
       IN SymbolWinOf(m, g, pt, s) + SumWinsOf(m, g, pt, symbols \ {s})

\* lines 144-184
EvaluateWaysWinOf(m, g, pt) == SumWinsOf(m, g, pt, PayingSymbols(pt))

\* lines 187-194: every cell of every column of the grid
CountScattersOf(g) ==
  Cardinality({c \in UNION {{<<r, row>> : row \in DOMAIN g[r]} : r \in DOMAIN g} :
                 g[c[1]][c[2]] = SCATTER_SYMBOL})

InitConfig ==
  /\ OptIdle
  /\ player = [pc |-> "idle"]
  /\ \E c \in Configurations : model = c[1] /\ PAYTABLE = c[2]
  /\ FREE_SPIN_RETRIGGER = TRUE
  /\ pc = "loop"
  /\ num_spins \in 0..MaxSpins
  /\ i = 0
  /\ stats = NewStats
  /\ grid = << >>
  /\ base_win = 0
  /\ scatter_count = 0
  /\ total_spin_win = 0
  /\ remaining = 0
  /\ fs_total_win = 0
  /\ fs_played = 0
  /\ rng = RngSeed(SEED)
  /\ runs = << >>

\* lines 259-270 under the configuration: the bet is taken (259-260), then
\* spin_reels either raises or returns the grid that is evaluated
ConfigSpin ==
  /\ UNCHANGED <<model, optVars, player>>
  /\ pc = "loop"
  /\ i < num_spins
  /\ IF SpinRaises(model)
     THEN /\ stats' = [stats EXCEPT
                         !.total_spins = @ + 1,
                         !.total_wagered = @ + bet_per_spin]
          /\ pc' = "raised"
          /\ runs' = Append(runs, [outcome |-> "ValueError"])
          /\ UNCHANGED <<grid, base_win, total_spin_win, scatter_count>>
     ELSE /\ \E starts \in StartPositionsOf(model) :
               LET g == SpinReelsOf(model, starts)
                   win == EvaluateWaysWinOf(model, g, PAYTABLE)
               IN /\ grid' = g
                  /\ base_win' = win
                  /\ total_spin_win' = win
                  /\ scatter_count' = CountScattersOf(g)
                  /\ stats' = [stats EXCEPT
                                 !.total_spins = @ + 1,
                                 !.total_wagered = @ + bet_per_spin,
                                 !.base_game_won = @ + win]
          /\ pc' = "spun"
          /\ UNCHANGED runs
  /\ UNCHANGED <<PAYTABLE, FREE_SPIN_RETRIGGER, num_spins, i, remaining,
                 fs_total_win, fs_played, rng>>

\* run_free_spins spins the same reels; it is reached under the filled-in
\* reels only
ConfigFeatureSpin ==
  /\ model = DefaultModel
  /\ FeatureSpin

NextConfig ==
  ConfigSpin \/ CheckFeature \/ ConfigFeatureSpin \/ FreeSpinsReturn
    \/ TrackStats \/ Finalize

SpecConfig == InitConfig /\ [][NextConfig]_vars

\* ========================================================================
\* The optimizer script of PaytableOptimizerTool._run
\* (tools/tier1_upgrades.py, lines 233-349)
\* ========================================================================
\* Bounds of the optimizer runs that are followed
MaxIters == 3
MaxBatchSpins == 2

\* the paytable argument; a JSON object keeps the order of its keys, so it
\* is a sequence of entries.  Pays are in hundredths of the bet, which makes
\* total_won / total_wagered the RTP in percent.
OptPaytable ==
  << [sym |-> "H1", pays |-> (3 :> 3000)],
     [sym |-> "H2", pays |-> (3 :> 96)],
     [sym |-> "H3", pays |-> (3 :> 2000)],
     [sym |-> "L1", pays |-> (3 :> 100)] >>

\* the reel_strips argument
OptReelStrips ==
  << <<"H1", "H1", "H3", "L1">>,
     <<"H1", "H1", "H3", "L1">>,
     <<"H1", "H1", "H3", "L1">> >>

\* a paytable of three symbols, all of them high-pay for adjust_reels, and
\* reel strips for it
ShortPaytable ==
  << [sym |-> "H1", pays |-> (3 :> 1)],
     [sym |-> "H2", pays |-> (3 :> 2)],
     [sym |-> "H3", pays |-> EmptyDict] >>

ShortReelStrips ==
  << <<"H1", "H1", "H2">>, <<"H1", "H1", "H2">>, <<"H1", "H1", "H2">> >>

\* the tolerance arguments: 4, 1000, and 29.3333, which lies between a
\* deviation of 29 1/3 and that deviation rounded to four decimals
Tolerances == { Quot(4, 1), Quot(1000, 1) }

FineTolerance == Quot(293333, 10000)

\* the arguments of the runs that are followed
OptConfigs ==
  { [TARGET_RTP |-> 96, TOLERANCE |-> tol, MAX_ITERS |-> m, SPINS |-> n,
     COLS |-> 3, ROWS |-> 1, paytable |-> OptPaytable,
     reel_strips |-> OptReelStrips] :
      tol \in Tolerances, m \in 0..MaxIters, n \in 1..MaxBatchSpins }
    \cup
  { [TARGET_RTP |-> 96, TOLERANCE |-> FineTolerance, MAX_ITERS |-> m,
     SPINS |-> 3, COLS |-> 3, ROWS |-> 1, paytable |-> OptPaytable,
     reel_strips |-> OptReelStrips] : m \in 1..2 }
    \cup
  { [TARGET_RTP |-> 1, TOLERANCE |-> Quot(0, 1), MAX_ITERS |-> 1, SPINS |-> 1,
     COLS |-> 3, ROWS |-> 1, paytable |-> ShortPaytable,
     reel_strips |-> ShortReelStrips],
    [TARGET_RTP |-> 0, TOLERANCE |-> Quot(0, 1), MAX_ITERS |-> 2, SPINS |-> 1,
     COLS |-> 3, ROWS |-> 1, paytable |-> ShortPaytable,
     reel_strips |-> ShortReelStrips] }

Abs(x) == IF x < 0 THEN -x ELSE x

Min(a, b) == IF a <= b THEN a ELSE b

RECURSIVE GCD(_, _)
GCD(a, b) == IF b = 0 THEN a ELSE GCD(b, a % b)

\* comparisons of exact quotients with positive denominators, over their
\* least common denominator
QLess(a, b) ==
  LET g == GCD(a.den, b.den)
  IN  a.num * (b.den \div g) < b.num * (a.den \div g)

QLeq(a, b) ==
  LET g == GCD(a.den, b.den)
  IN  a.num * (b.den \div g) <= b.num * (a.den \div g)

\* abs(a - b)
QAbsDiff(a, b) == Quot(Abs(a.num * b.den - b.num * a.den), a.den * b.den)

\* round(x, 4) of a non-negative quotient
Round4(q) == Quot((2 * q.num * 10000 + q.den) \div (2 * q.den), 10000)

\* reel.count(sym)
RECURSIVE Count(_, _)
Count(reel, sym) ==
  IF reel = << >> THEN 0
  ELSE (IF Head(reel) = sym THEN 1 ELSE 0) + Count(Tail(reel), sym)

\* reel.remove(sym): the first occurrence goes
RECURSIVE Remove(_, _)
Remove(reel, sym) ==
  IF reel = << >> THEN << >>
  ELSE IF Head(reel) = sym THEN Tail(reel)
  ELSE <<Head(reel)>> \o Remove(Tail(reel), sym)

\* the sequences that pick one element of choices[k] for every k up to n
RECURSIVE Product(_, _)
Product(choices, n) ==
  IF n = 0 THEN { << >> }
  ELSE { Append(p, x) : p \in Product(choices, n - 1), x \in choices[n] }

\* ---- simulate -----------------------------------------------------------
\* lines 257-264: the window at the drawn positions (0-based) of the first
\* COLS reels
Window(reels, pos, c) ==
  [col \in 1..c.COLS |->
     [row \in 1..c.ROWS |->
        reels[col][((pos[col] + row - 1) % Len(reels[col])) + 1]]]

\* lines 269-274: the run of sym from the left of a row
RECURSIVE RowCountFrom(_, _, _, _, _)
RowCountFrom(window, row, sym, col, c) ==
  IF col > c.COLS THEN 0
  ELSE IF window[col][row] = sym
       THEN 1 + RowCountFrom(window, row, sym, col + 1, c)
       ELSE 0

RowCount(window, row, sym, c) == RowCountFrom(window, row, sym, 1, c)

\* lines 275-277: what one symbol pays on one row
RowPay(window, row, entry, c) ==
  LET count == RowCount(window, row, entry.sym, c)
  IN  IF count \in DOMAIN entry.pays /\ count >= 3
      THEN entry.pays[count] ELSE 0

RECURSIVE RowsPayFrom(_, _, _, _)
RowsPayFrom(window, row, entry, c) ==
  IF row > c.ROWS THEN 0
  ELSE RowPay(window, row, entry, c) + RowsPayFrom(window, row + 1, entry, c)

\* lines 267-277: what one spin adds to total_won
RECURSIVE WindowWinFrom(_, _, _, _)
WindowWinFrom(window, pt, k, c) ==
  IF k > Len(pt) THEN 0
  ELSE RowsPayFrom(window, 1, pt[k], c) + WindowWinFrom(window, pt, k + 1, c)

WindowWin(window, pt, c) == WindowWinFrom(window, pt, 1, c)

\* line 260: the positions np.random.randint can draw
Positions(reels, c) ==
  Product([col \in 1..c.COLS |-> 0..(Len(reels[col]) - 1)], c.COLS)

\* the amounts one spin can add
SpinWins(reels, pt, c) ==
  { WindowWin(Window(reels, pos, c), pt, c) : pos \in Positions(reels, c) }

\* the values total_won can have after n spins
RECURSIVE TotalsWon(_, _)
TotalsWon(wins, n) ==
  IF n = 0 THEN {0}
  ELSE { t + w : t \in TotalsWon(wins, n - 1), w \in wins }

\* lines 250-279: the values simulate(reels, pt, n_spins) can return
simulate(reels, pt, n_spins, c) ==
  IF n_spins > 0
  THEN { Quot(total_won, n_spins) :
           total_won \in TotalsWon(SpinWins(reels, pt, c), n_spins) }
  ELSE { Quot(0, 1) }

\* ---- adjust_reels -------------------------------------------------------
Keys(pt) == [k \in 1..Len(pt) |-> pt[k].sym]

\* line 288
high_pay_symbols(pt) == SubSeq(Keys(pt), 1, Min(3, Len(pt)))

\* line 289
low_pay_symbols(pt) ==
  IF Len(pt) > 3 THEN SubSeq(Keys(pt), 4, Len(pt)) ELSE << >>

Elements(seq) == { seq[k] : k \in 1..Len(seq) }

\* line 286: int(abs(deviation) * 2 / (1 + iteration * 0.3)), at least 1
Strength(dev, iteration) ==
  Max(1, (Abs(dev.num) * 2 * 10) \div (dev.den * (10 + 3 * iteration)))

\* the first symbol of syms that the reel holds more than once, 0 if none
FirstRepeated(reel, syms) ==
  LET hits == { k \in 1..Len(syms) : Count(reel, syms[k]) > 1 }
  IN  IF hits = {} THEN 0
      ELSE CHOOSE k \in hits : \A j \in hits : k <= j

\* lines 295-300: one pass on a reel when the RTP is too high
PassTooHigh(reel, pt) ==
  LET k == FirstRepeated(reel, high_pay_symbols(pt))
      removed == Remove(reel, high_pay_symbols(pt)[k])
  IN  IF k = 0 THEN { reel }
      ELSE IF low_pay_symbols(pt) # << >>
           THEN { Append(removed, s) : s \in Elements(low_pay_symbols(pt)) }
           ELSE { removed }

\* lines 303-310: one pass on a reel when the RTP is not too high
PassTooLow(reel, pt) ==
  LET k == FirstRepeated(reel, low_pay_symbols(pt))
      removed == Remove(reel, low_pay_symbols(pt)[k])
  IN  IF low_pay_symbols(pt) # << >>
      THEN IF k = 0 THEN { reel }
           ELSE { Append(removed, s) : s \in Elements(high_pay_symbols(pt)) }
      ELSE { Append(reel, s) : s \in Elements(high_pay_symbols(pt)) }

\* lines 294 and 302: `for _ in range(strength)`; a pass that changes
\* nothing leaves nothing for the passes after it to change
RECURSIVE Passes(_, _, _, _)
Passes(reel, pt, too_high, strength) ==
  LET once == IF too_high THEN PassTooHigh(reel, pt) ELSE PassTooLow(reel, pt)
  IN  IF strength = 0 \/ once = { reel } THEN { reel }
      ELSE UNION { Passes(r, pt, too_high, strength - 1) : r \in once }

\* lines 281-312: the strips adjust_reels can return; the argument is
\* copied and only the first min(len(adjusted), COLS) reels are adjusted
adjust_reels(reels, current_rtp, target, iteration, c) ==
  LET dev == Quot(current_rtp.num - target * current_rtp.den, current_rtp.den)
      strength == Strength(dev, iteration)
      choices ==
        [r \in 1..Len(reels) |->
           IF r <= Min(Len(reels), c.COLS)
           THEN Passes(reels[r], c.paytable, dev.num > 0, strength)
           ELSE { reels[r] }]
  IN  Product(choices, Len(reels))

\* ---- the optimization loop ----------------------------------------------
\* no simulation run is followed
SimIdle ==
  /\ model = DefaultModel
  /\ PAYTABLE = GamePaytable
  /\ FREE_SPIN_RETRIGGER = FALSE
  /\ pc = "idle"
  /\ num_spins = 0
  /\ i = 0
  /\ stats = NewStats
  /\ grid = << >>
  /\ base_win = 0
  /\ scatter_count = 0
  /\ total_spin_win = 0
  /\ remaining = 0
  /\ fs_total_win = 0
  /\ fs_played = 0
  /\ rng = RngSeed(SEED)
  /\ runs = << >>

\* lines 239-248 and 315-317
InitOpt ==
  /\ SimIdle
  /\ player = [pc |-> "idle"]
  /\ cfg \in OptConfigs
  /\ opt_pc = "loop"
  /\ opt_i = 0
  /\ reel_strips = cfg.reel_strips
  /\ rtp = Quot(0, 1)
  /\ deviation = Quot(0, 1)
  /\ history = << >>
  /\ simulated = << >>
  /\ best_reels = cfg.reel_strips
  /\ best_deviation = Quot(999, 1)
  /\ result = EmptyDict
  /\ given_reels = cfg.reel_strips

\* line 325
Improves(dev, best) == QLess(dev, best)

\* lines 319-327: one batch is simulated and measured
OptSimulate ==
  /\ opt_pc = "loop"
  /\ opt_i < cfg.MAX_ITERS
  /\ \E r \in simulate(reel_strips, cfg.paytable, cfg.SPINS, cfg) :
       LET dev == QAbsDiff(r, Quot(cfg.TARGET_RTP, 1))
       IN  /\ rtp' = r
           /\ deviation' = dev
           /\ history' = Append(history, [iteration |-> opt_i + 1,
                                          rtp |-> Round4(r),
                                          deviation |-> Round4(dev)])
           /\ simulated' = Append(simulated, [reels |-> reel_strips,
                                              deviation |-> dev])
           /\ IF Improves(dev, best_deviation)
              THEN /\ best_deviation' = dev
                   /\ best_reels' = reel_strips
              ELSE UNCHANGED <<best_deviation, best_reels>>
  /\ opt_pc' = "measured"
  /\ UNCHANGED <<cfg, opt_i, reel_strips, result, given_reels>>
  /\ UNCHANGED <<simVars, player>>

\* lines 329-330: the batch is within the tolerance
OptBreak ==
  /\ opt_pc = "measured"
  /\ QLeq(deviation, cfg.TOLERANCE)
  /\ opt_pc' = "final"
  /\ UNCHANGED <<cfg, opt_i, reel_strips, rtp, deviation, history, simulated,
                 best_reels, best_deviation, result, given_reels>>
  /\ UNCHANGED <<simVars, player>>

\* (variant: the strips are adjusted and the loop goes on whatever the
\* deviation)
OptAdjustAlways ==
  /\ opt_pc = "measured"
  /\ reel_strips' \in adjust_reels(reel_strips, rtp, cfg.TARGET_RTP, opt_i, cfg)
  \* line 283: the changes are made on a deep copy of the object given
  /\ given_reels' = reel_strips
  /\ opt_i' = opt_i + 1
  /\ opt_pc' = "loop"
  /\ UNCHANGED <<cfg, rtp, deviation, history, simulated, best_reels,
                 best_deviation, result>>
  /\ UNCHANGED <<simVars, player>>

\* (variant: adjust_reels changes the list it was given and returns it)
OptAdjustInPlace ==
  /\ opt_pc = "measured"
  /\ ~QLeq(deviation, cfg.TOLERANCE)
  /\ reel_strips' \in adjust_reels(reel_strips, rtp, cfg.TARGET_RTP, opt_i, cfg)
  /\ given_reels' = reel_strips'
  /\ opt_i' = opt_i + 1
  /\ opt_pc' = "loop"
  /\ UNCHANGED <<cfg, rtp, deviation, history, simulated, best_reels,
                 best_deviation, result>>
  /\ UNCHANGED <<simVars, player>>

\* lines 329 and 332: it is not, and the strips are adjusted
OptAdjust ==
  /\ opt_pc = "measured"
  /\ ~QLeq(deviation, cfg.TOLERANCE)
  /\ reel_strips' \in adjust_reels(reel_strips, rtp, cfg.TARGET_RTP, opt_i, cfg)
  \* line 283: the changes are made on a deep copy of the object given
  /\ given_reels' = reel_strips
  /\ opt_i' = opt_i + 1
  /\ opt_pc' = "loop"
  /\ UNCHANGED <<cfg, rtp, deviation, history, simulated, best_reels,
                 best_deviation, result>>
  /\ UNCHANGED <<simVars, player>>

\* line 338
Status(best, tolerance) ==
  IF QLeq(best, tolerance) THEN "converged" ELSE "best_effort"

\* lines 335-348, after the break or after the last batch
OptFinal ==
  /\ \/ opt_pc = "final"
     \/ opt_pc = "loop" /\ opt_i >= cfg.MAX_ITERS
  /\ \E final_rtp \in simulate(best_reels, cfg.paytable, cfg.SPINS * 2, cfg) :
       result' =
         [status |-> Status(best_deviation, cfg.TOLERANCE),
          target_rtp |-> cfg.TARGET_RTP,
          final_rtp |-> Round4(final_rtp),
          deviation |-> Round4(QAbsDiff(final_rtp, Quot(cfg.TARGET_RTP, 1))),
          iterations |-> Len(history),
          history |-> history,
          optimized_reel_strips |-> best_reels,
          reel_lengths |-> [r \in 1..Len(best_reels) |-> Len(best_reels[r])]]
  /\ opt_pc' = "done"
  /\ UNCHANGED <<cfg, opt_i, reel_strips, rtp, deviation, history, simulated,
                 best_reels, best_deviation, given_reels>>
  /\ UNCHANGED <<simVars, player>>

NextOpt == OptSimulate \/ OptBreak \/ OptAdjust \/ OptFinal

SpecOpt == InitOpt /\ [][NextOpt]_vars

\* ========================================================================
\* run_free_spins called on its own
\* ========================================================================
\* reels on which every grid shows exactly three scatters and nothing pays
AlwaysScatterModel ==
  [DefaultModel EXCEPT
     !.REEL_STRIPS = << <<"X">>, <<"SC", "X">>, <<"SC", "X">>, <<"SC", "X">> >>]

\* lines 201-203: run_free_spins(num_spins) is entered
EnterFreeSpins(m, retrigger, n) ==
  /\ OptIdle
  /\ player = [pc |-> "idle"]
  /\ model = m
  /\ PAYTABLE = GamePaytable
  /\ FREE_SPIN_RETRIGGER = retrigger
  /\ pc = "free"
  /\ num_spins = n
  /\ remaining = n
  /\ fs_total_win = 0
  /\ fs_played = 0
  /\ i = 0
  /\ stats = NewStats
  /\ grid = << >>
  /\ base_win = 0
  /\ scatter_count = 0
  /\ total_spin_win = 0
  /\ rng = RngSeed(SEED)
  /\ runs = << >>

\* the numbers of free spins the trigger table awards
Awards == { FREE_SPIN_TRIGGER[k] : k \in DOMAIN FREE_SPIN_TRIGGER }

InitCascade ==
  \E retrigger \in BOOLEAN, n \in Awards :
    EnterFreeSpins(DefaultModel, retrigger, n)

\* lines 205-215: one pass of the while loop; grid is the local of
\* run_free_spins, win and sc_count are kept in base_win and scatter_count;
\* fs_played counts the passes up to MaxFreeSpins
CascadeSpin ==
  /\ UNCHANGED <<model, optVars, player>>
  /\ pc = "free"
  /\ remaining > 0
  /\ \E starts \in StartPositionsOf(model) :
       LET g == SpinReelsOf(model, starts)
           win == EvaluateWaysWinOf(model, g, PAYTABLE) * FREE_SPIN_MULTIPLIER
           sc_count == CountScattersOf(g)
           award == IF FREE_SPIN_RETRIGGER /\ Triggers(sc_count)
                    THEN FREE_SPIN_TRIGGER[sc_count] ELSE 0
       IN /\ grid' = g
          /\ base_win' = win
          /\ scatter_count' = sc_count
          /\ fs_total_win' = fs_total_win + win
          /\ remaining' = (remaining - 1) + award
  /\ fs_played' = Min(fs_played + 1, MaxFreeSpins)
  /\ UNCHANGED <<PAYTABLE, FREE_SPIN_RETRIGGER, pc, num_spins, i, stats,
                 total_spin_win, rng, runs>>

\* line 217: the loop is left and total_win is returned
CascadeReturn ==
  /\ UNCHANGED <<model, optVars, player>>
  /\ pc = "free"
  /\ ~(remaining > 0)
  /\ pc' = "returned"
  /\ total_spin_win' = fs_total_win
  /\ UNCHANGED <<PAYTABLE, FREE_SPIN_RETRIGGER, num_spins, i, stats, grid,
                 base_win, scatter_count, remaining, fs_total_win, fs_played,
                 rng, runs>>

\* the cascade is followed for MaxFreeSpins free spins
BoundedCascadeSpin == fs_played < MaxFreeSpins /\ CascadeSpin

NextCascade ==
  \/ BoundedCascadeSpin
  \/ CascadeReturn

SpecCascade == InitCascade /\ [][NextCascade]_vars

\* run_free_spins followed to its end: the configurations in which the
\* counter and the accumulated win stay bounded
InitForever ==
  \E c \in ({DefaultModel} \X {FALSE}) \cup ({AlwaysScatterModel} \X BOOLEAN),
     n \in Awards :
    EnterFreeSpins(c[1], c[2], n)

NextForever ==
  \/ CascadeSpin
  \/ CascadeReturn

\* the interpreter keeps executing the loop: a step that can be taken is taken
SpecForever ==
  /\ InitForever
  /\ [][NextForever]_vars
  /\ WF_vars(CascadeSpin)
  /\ WF_vars(CascadeReturn)

\* ========================================================================
\* The analysis of the player-behaviour script of
\* PlayerBehaviorModelTool._run (tools/tier1_upgrades.py, lines 722-749)
\* ========================================================================
\* np.median(spin_counts): whole or half numbers of spins
MedianSpins ==
  { Quot(n, 2) : n \in {0, 1, 98, 99, 100, 199, 200, 298, 299, 300, 302, 400, 900} }

\* np.mean(bonus_counts) over two sessions
MeanBonuses == { Quot(n, 2) : n \in {0, 1, 6, 7} }

\* np.mean(dry_streaks) over two sessions
AvgDry == { Quot(n, 2) : n \in {0, 79, 160, 161} }

\* np.max(biggest_wins): multiples of the bet rounded to one decimal
BiggestWins == { Quot(n, 10) : n \in {0, 5, 100, 125} }

\* the max_win argument
MaxWins == {0, 1, 10}

InitPlayer ==
  /\ SimIdle
  /\ OptIdle
  /\ \E med \in MedianSpins, bon \in MeanBonuses, dry \in AvgDry,
        big \in BiggestWins, mw \in MaxWins :
       player = [pc |-> "analyze", median_spins |-> med, mean_bonuses |-> bon,
                 avg_dry |-> dry, max_biggest_win |-> big, MAX_WIN |-> mw]

\* the quotient with a positive denominator
Normal(q) == IF q.den < 0 THEN Quot(-q.num, -q.den) ELSE q

QMin(a, b) == IF QLeq(a, b) THEN a ELSE b

QMax(a, b) == IF QLeq(a, b) THEN b ELSE a

\* the same quotient in lowest terms
Reduced(q) ==
  LET g == GCD(Abs(q.num), Abs(q.den))
  IN  IF g = 0 THEN q ELSE Quot(q.num \div g, q.den \div g)

QTimes(a, k) == Reduced(Quot(a.num * k, a.den))

QPlus(a, b) ==
  LET x == Reduced(a)
      y == Reduced(b)
  IN  Reduced(Quot(x.num * y.den + y.num * x.den, x.den * y.den))

\* int(x): towards zero
Trunc(q) ==
  IF q.num >= 0 THEN q.num \div q.den ELSE -((-q.num) \div q.den)

\* line 736: min(median_spins / 200, 1.0) * 30
SessionTerm(median_spins) ==
  QTimes(QMin(Quot(median_spins.num, median_spins.den * 200), Quot(1, 1)), 30)

\* line 737: min(np.mean(bonus_counts), 3) / 3 * 25
BonusTerm(mean_bonuses) ==
  LET capped == QMin(mean_bonuses, Quot(3, 1))
  IN  Quot(capped.num * 25, capped.den * 3)

\* line 738: max(0, 1 - avg_dry / 80) * 25
DryTerm(avg_dry) ==
  QTimes(QMax(Quot(0, 1), Quot(80 * avg_dry.den - avg_dry.num, 80 * avg_dry.den)),
         25)

\* line 739: np.max(biggest_wins) / MAX_WIN on numpy numbers: a division of
\* zero by zero is nan, of a positive number by zero is inf
WinRatio(max_biggest_win, max_win) ==
  IF max_win # 0
  THEN [kind |-> "number",
        value |-> Normal(Quot(max_biggest_win.num, max_biggest_win.den * max_win))]
  ELSE IF max_biggest_win.num = 0 THEN [kind |-> "nan"]
  ELSE [kind |-> "inf"]

\* line 739: min(ratio, 1.0) * 20; min(nan, 1.0) is nan, min(inf, 1.0) is 1.0
WinTerm(max_biggest_win, max_win) ==
  LET ratio == WinRatio(max_biggest_win, max_win)
  IN  IF ratio.kind = "nan" THEN [kind |-> "nan"]
      ELSE IF ratio.kind = "inf" THEN [kind |-> "number", value |-> Quot(20, 1)]
      ELSE [kind |-> "number",
            value |-> QTimes(QMin(ratio.value, Quot(1, 1)), 20)]

\* lines 735-740: min(100, max(0, int(sum of the four terms)))
Engagement(p) ==
  LET total == QPlus(QPlus(SessionTerm(p.median_spins), BonusTerm(p.mean_bonuses)),
                     QPlus(DryTerm(p.avg_dry),
                           WinTerm(p.max_biggest_win, p.MAX_WIN).value))
  IN  Min(100, Max(0, Trunc(total)))

\* (variant: a median on a boundary takes the label below the boundary)
ChurnRiskInclusive(median_spins) ==
  IF QLeq(median_spins, Quot(50, 1)) THEN "CRITICAL"
  ELSE IF QLeq(median_spins, Quot(100, 1)) THEN "HIGH"
  ELSE IF QLeq(median_spins, Quot(150, 1)) THEN "MEDIUM"
  ELSE "LOW"

\* lines 742-749
ChurnRisk(median_spins) ==
  IF QLess(median_spins, Quot(50, 1)) THEN "CRITICAL"
  ELSE IF QLess(median_spins, Quot(100, 1)) THEN "HIGH"
  ELSE IF QLess(median_spins, Quot(150, 1)) THEN "MEDIUM"
  ELSE "LOW"

\* lines 731-749: engagement and churn risk; int(nan) raises ValueError and
\* the script ends there
Analyze ==
  /\ player.pc = "analyze"
  /\ IF WinTerm(player.max_biggest_win, player.MAX_WIN).kind = "nan"
     THEN player' = [player EXCEPT !.pc = "raised"] @@ [error |-> "ValueError"]
     ELSE player' = [player EXCEPT !.pc = "analyzed"] @@
                      [engagement |-> Engagement(player),
                       churn_risk |-> ChurnRisk(player.median_spins)]
  /\ UNCHANGED <<simVars, optVars>>

NextPlayer == Analyze

SpecPlayer == InitPlayer /\ [][NextPlayer]_vars

\* ========================================================================
\* The session loop of the player-behaviour script of
\* PlayerBehaviorModelTool._run (tools/tier1_upgrades.py, lines 641-718)
\* ========================================================================
\* Money is counted in thousandths of a unit, a multiple of the bet (a draw, a
\* win divided by the bet) in thousandths as well.

\* the spins after which the fatigue quit is offered (the script's 500),
\* scaled to the sessions that are followed
FatigueSpins == 2

\* every session is followed for at most this many spins: by then the player
\* has taken the fatigue quit
MaxSessionSpins == 3

\* the arguments bet_size, session_budget, max_win and num_sessions
SessionArguments ==
  { [BET |-> 1000, BUDGET |-> 2000, MAX_WIN |-> 2, N_SESSIONS |-> 2],
    [BET |-> 1000, BUDGET |-> 1000, MAX_WIN |-> 0, N_SESSIONS |-> 1],
    [BET |-> 1000, BUDGET |-> 1000, MAX_WIN |-> 2, N_SESSIONS |-> 1],
    [BET |-> 1000, BUDGET |-> 0,    MAX_WIN |-> 2, N_SESSIONS |-> 2],
    [BET |-> 1000, BUDGET |-> 2000, MAX_WIN |-> 2, N_SESSIONS |-> 0],
    [BET |-> 0,    BUDGET |-> 1000, MAX_WIN |-> 2, N_SESSIONS |-> 1],
    [BET |-> 0,    BUDGET |-> 0,    MAX_WIN |-> 2, N_SESSIONS |-> 1] }

\* values of np.random.lognormal for a base win (0.05, 0.996, 3.0)
BaseDraws == {50, 996, 3000}

\* values of np.random.lognormal for a bonus win (0.5, 3.0)
BonusDraws == {500, 3000}

\* what the random draws of one spin decide: a loss (with or without the
\* near-miss of line 698), a base win or a bonus win with its draw
Outcomes ==
  {[kind |-> "loss", draw |-> 0, near |-> b] : b \in BOOLEAN}
    \cup {[kind |-> "base", draw |-> d, near |-> FALSE] : d \in BaseDraws}
    \cup {[kind |-> "bonus", draw |-> d, near |-> FALSE] : d \in BonusDraws}

\* line 676: BET * max(1, min(MAX_WIN, draw))
BonusWin(BET, MAX_WIN, draw) ==
  (BET * Max(1000, Min(MAX_WIN * 1000, draw))) \div 1000

\* lines 682-685: min(BET * max(0.1, draw), BET * MAX_WIN)
BaseWin(BET, MAX_WIN, draw) ==
  Min((BET * Max(100, draw)) \div 1000, BET * MAX_WIN)

\* round(x, n): the nearest multiple of unit, a tie to the even multiple
RoundTo(x, unit) ==
  LET low == (x \div unit) * unit
      rest == x - low
  IN  IF 2 * rest < unit THEN low
      ELSE IF 2 * rest > unit THEN low + unit
      ELSE IF (x \div unit) % 2 = 0 THEN low ELSE low + unit

\* lines 641-654: the script is started with its arguments
InitSession ==
  /\ SimIdle
  /\ OptIdle
  /\ \E a \in SessionArguments :
       player = [pc |-> "for", BET |-> a.BET, BUDGET |-> a.BUDGET,
                 MAX_WIN |-> a.MAX_WIN, N_SESSIONS |-> a.N_SESSIONS,
                 sessions |-> << >>, balance |-> 0, spins |-> 0, wins |-> 0,
                 bonuses_triggered |-> 0, max_dry_streak |-> 0,
                 current_dry |-> 0, biggest_win |-> 0, near_misses |-> 0,
                 \* history: the bets deducted, the longest run of losing
                 \* spins, how the loop was left, the sessions as they ended
                 deducted |-> 0, longest_dry |-> 0, exit |-> "none",
                 closed |-> << >>]

\* lines 657-665: the next session starts
StartSession ==
  /\ player.pc = "for"
  /\ Len(player.sessions) < player.N_SESSIONS
  /\ player' = [player EXCEPT
                  !.pc = "while", !.balance = player.BUDGET, !.spins = 0,
                  !.wins = 0, !.bonuses_triggered = 0, !.max_dry_streak = 0,
                  !.current_dry = 0, !.biggest_win = 0, !.near_misses = 0,
                  !.deducted = 0, !.longest_dry = 0, !.exit = "none"]
  /\ UNCHANGED <<simVars, optVars>>

\* line 657: range(N_SESSIONS) is exhausted
SessionsDone ==
  /\ player.pc = "for"
  /\ ~(Len(player.sessions) < player.N_SESSIONS)
  /\ player' = [player EXCEPT !.pc = "sessions_done"]
  /\ UNCHANGED <<simVars, optVars>>

\* (variant: a win is counted twice)
WinCountedTwice(p) ==
  [p EXCEPT !.wins = @ + 2,
            !.max_dry_streak = IF p.current_dry > @ THEN p.current_dry ELSE @,
            !.current_dry = 0]

\* lines 691-694: a win closes the dry run
WinCounted(p) ==
  [p EXCEPT !.wins = @ + 1,
            !.max_dry_streak = IF p.current_dry > @ THEN p.current_dry ELSE @,
            !.current_dry = 0]

\* lines 667-699: the bet is taken and the spin is played
PlaySpin ==
  /\ player.pc = "while"
  /\ player.balance >= player.BET
  /\ \E o \in Outcomes :
       LET bet == [player EXCEPT !.balance = @ - player.BET,
                                 !.spins = @ + 1,
                                 !.deducted = @ + 1]
       IN  IF o.kind = "loss"
           THEN player' =
                  [bet EXCEPT !.pc = "quit",
                              !.current_dry = @ + 1,
                              !.near_misses = IF o.near THEN @ + 1 ELSE @,
                              !.longest_dry = Max(@, bet.current_dry + 1)]
           ELSE IF o.kind = "bonus"
           THEN LET bonus_win == BonusWin(player.BET, player.MAX_WIN, o.draw)
                    paid == [bet EXCEPT !.balance = @ + bonus_win,
                                        !.bonuses_triggered = @ + 1]
                IN  IF player.BET = 0
                    \* line 679: bonus_win / BET
                    THEN player' = [paid EXCEPT !.pc = "raised"]
                                     @@ [error |-> "ZeroDivisionError"]
                    ELSE player' =
                           WinCounted(
                             [paid EXCEPT
                                !.pc = "quit",
                                !.biggest_win =
                                  Max(@, (bonus_win * 1000) \div player.BET)])
           ELSE LET win == BaseWin(player.BET, player.MAX_WIN, o.draw)
                    paid == [bet EXCEPT !.balance = @ + win]
                IN  IF player.BET = 0
                    \* line 687: win / BET
                    THEN player' = [paid EXCEPT !.pc = "raised"]
                                     @@ [error |-> "ZeroDivisionError"]
                    ELSE LET ratio == (win * 1000) \div player.BET
                         IN  player' =
                               WinCounted(
                                 [paid EXCEPT
                                    !.pc = "quit",
                                    !.biggest_win = Max(@, ratio),
                                    !.near_misses =
                                      IF 500 <= ratio /\ ratio < 2000
                                      THEN @ + 1 ELSE @])
  /\ UNCHANGED <<simVars, optVars>>

\* lines 702-704: the balance is at three budgets and the player quits
QuitBigWin ==
  /\ player.pc = "quit"
  /\ player.balance >= player.BUDGET * 3
  /\ player' = [player EXCEPT !.pc = "ended", !.exit = "big_win"]
  /\ UNCHANGED <<simVars, optVars>>

\* lines 705-707: the session is long and the player quits
QuitFatigue ==
  /\ player.pc = "quit"
  /\ player.spins >= FatigueSpins
  /\ player' = [player EXCEPT !.pc = "ended", !.exit = "fatigue"]
  /\ UNCHANGED <<simVars, optVars>>

\* lines 702-707: no quit is taken and the loop goes on; a player who is
\* offered the fatigue quit takes it by spin MaxSessionSpins
PlayOn ==
  /\ player.pc = "quit"
  /\ player.spins < MaxSessionSpins
  /\ player' = [player EXCEPT !.pc = "while"]
  /\ UNCHANGED <<simVars, optVars>>

\* line 667: the balance is below the bet and the loop is left
LeaveLoop ==
  /\ player.pc = "while"
  /\ ~(player.balance >= player.BET)
  /\ player' = [player EXCEPT !.pc = "ended", !.exit = "bust"]
  /\ UNCHANGED <<simVars, optVars>>

\* (variant: a session that ends with exactly the bet counts as busted)
AppendSessionBustedAtBet ==
  /\ player.pc = "ended"
  /\ player' =
       [player EXCEPT
          !.pc = "for",
          !.sessions =
            Append(@, [spins |-> player.spins,
                       final_balance |-> RoundTo(player.balance, 10),
                       wins |-> player.wins,
                       bonuses |-> player.bonuses_triggered,
                       max_dry_streak |-> player.max_dry_streak,
                       biggest_win_x |-> RoundTo(player.biggest_win, 100),
                       near_misses |-> player.near_misses,
                       busted |-> (player.balance <= player.BET)]),
          !.closed =
            Append(@, [balance |-> player.balance,
                       deducted |-> player.deducted,
                       longest_dry |-> player.longest_dry,
                       exit |-> player.exit])]
  /\ UNCHANGED <<simVars, optVars>>

\* lines 709-718: the session is recorded
AppendSession ==
  /\ player.pc = "ended"
  /\ player' =
       [player EXCEPT
          !.pc = "for",
          !.sessions =
            Append(@, [spins |-> player.spins,
                       final_balance |-> RoundTo(player.balance, 10),
                       wins |-> player.wins,
                       bonuses |-> player.bonuses_triggered,
                       max_dry_streak |-> player.max_dry_streak,
                       biggest_win_x |-> RoundTo(player.biggest_win, 100),
                       near_misses |-> player.near_misses,
                       busted |-> (player.balance < player.BET)]),
          !.closed =
            Append(@, [balance |-> player.balance,
                       deducted |-> player.deducted,
                       longest_dry |-> player.longest_dry,
                       exit |-> player.exit])]
  /\ UNCHANGED <<simVars, optVars>>

NextSession ==
  \/ StartSession
  \/ SessionsDone
  \/ PlaySpin
  \/ QuitBigWin
  \/ QuitFatigue
  \/ PlayOn
  \/ LeaveLoop
  \/ AppendSession

SpecSession == InitSession /\ [][NextSession]_vars

\* the interpreter keeps running the script: a step that can be taken is
\* taken, and a quit that is offered again and again is taken (PlayOn stops
\* being possible once the fatigue quit has been offered up to spin
\* MaxSessionSpins)
SpecSessionFair ==
  /\ InitSession
  /\ [][NextSession]_vars
  /\ WF_vars(NextSession)
  /\ SF_vars(QuitBigWin)
  /\ SF_vars(QuitFatigue)

\* ========================================================================
\* Properties
\* ========================================================================
\* the spins whose total has been taken into the statistics
TrackedSpins ==
  IF pc \in {"spun", "free", "track"} THEN stats.total_spins - 1
  ELSE stats.total_spins

\* C1: total_wagered equals total_spins in every state of run_simulation and
\* in every result: both count the base spins begun (i, plus the one in
\* progress), so each base spin adds 1 to both and the free spins of a
\* cascade, retriggered ones included, add to neither.
C1_WageredEqualsSpins ==
  /\ stats.total_wagered = stats.total_spins
  /\ stats.total_spins = (IF pc \in {"spun", "free", "track"} THEN i + 1 ELSE i)
  /\ \A k \in 1..Len(runs) :
       runs[k].outcome = "returned" =>
         /\ runs[k].total_wagered = num_spins
         /\ runs[k].total_spins = num_spins

\* a retriggered free spin was played in the cascade of the second base spin
C1_Witness ==
  /\ pc = "free"
  /\ fs_played = 2
  /\ i = 1
  /\ stats.total_wagered = 2
  /\ stats.total_spins = 2

\* the reel cells that match a symbol: the symbol itself or the wild
Matches(g, reel, symbol) ==
  {row \in 1..NUM_ROWS : g[reel][row] \in {symbol, WILD_SYMBOL}}

\* the run of a symbol: the reels from the leftmost on that each hold a match
RunOf(g, symbol) ==
  CHOOSE k \in 0..NUM_REELS :
    /\ \A j \in 1..k : Matches(g, j, symbol) # {}
    /\ k < NUM_REELS => Matches(g, k + 1, symbol) = {}

RECURSIVE WaysOver(_, _, _)
WaysOver(g, symbol, length) ==
  IF length = 0 THEN 1
  ELSE Cardinality(Matches(g, length, symbol)) * WaysOver(g, symbol, length - 1)

\* the symbols that may pay: every symbol of the paytable but wild and scatter
PaidSymbols(pt) == DOMAIN pt \ {WILD_SYMBOL, SCATTER_SYMBOL}

\* C2: a paying symbol whose run covers fewer than 3 reels pays 0 whatever
\* the paytable holds, and a grid with no run of 3 or more has total win 0.
C2_ShortRunPaysNothing ==
  pc = "evaluated" =>
    /\ \A s \in PaidSymbols(PAYTABLE) :
         RunOf(grid, s) < 3 => SymbolWin(grid, PAYTABLE, s) = 0
    /\ (\A s \in PaidSymbols(PAYTABLE) : RunOf(grid, s) < 3) => base_win = 0

\* B runs over exactly two reels and the paytable has an entry for two B
C2_Witness ==
  /\ pc = "evaluated"
  /\ RunOf(grid, "B") = 2
  /\ 2 \in DOMAIN PAYTABLE["B"]
  /\ RunOf(grid, "A") = 2
  /\ base_win = 0

\* the grid with every wild cell turned into the given symbol
WildAs(g, symbol) ==
  [r \in 1..NUM_REELS |->
     [row \in 1..NUM_ROWS |->
        IF g[r][row] = WILD_SYMBOL THEN symbol ELSE g[r][row]]]

\* the paytable with the entries of wild and scatter emptied
WithoutWildAndScatter(pt) ==
  [s \in DOMAIN pt |->
     IF s \in {WILD_SYMBOL, SCATTER_SYMBOL} THEN EmptyDict ELSE pt[s]]

\* C3: the win does not depend on the paytable entries of wild and scatter
\* (neither is evaluated as a paying symbol); for every paying symbol a wild
\* cell counts exactly as a cell of that symbol; and count_scatters counts
\* the scatter cells only, never a wild.
C3_WildSubstitutesOnly ==
  pc = "evaluated" =>
    /\ base_win = EvaluateWaysWin(grid, WithoutWildAndScatter(PAYTABLE))
    /\ \A s \in PaidSymbols(PAYTABLE) :
         SymbolWin(grid, PAYTABLE, s) = SymbolWin(WildAs(grid, s), PAYTABLE, s)
    /\ scatter_count =
         Cardinality({c \in (1..NUM_REELS) \X (1..NUM_ROWS) :
                        grid[c[1]][c[2]] = SCATTER_SYMBOL})

\* wilds alone carry a run over three reels, wild and scatter have paytable
\* entries, and the win is the one of the extended symbols
C3_Witness ==
  /\ pc = "evaluated"
  /\ PAYTABLE = PaytableOdd
  /\ \A r \in 1..3 : grid[r] = <<WILD_SYMBOL, SCATTER_SYMBOL>>
  /\ grid[4] = <<"SC", "SC">>
  /\ scatter_count = 5
  /\ base_win = 12500

\* what one symbol is paid: the entry of the largest length L in 3..R that
\* the paytable has, times the ways over reels 1..L; 0 if there is none
Payment(g, pt, symbol) ==
  LET R == RunOf(g, symbol)
      lengths == {l \in 3..R : l \in DOMAIN pt[symbol]}
  IN IF lengths = {} THEN 0
     ELSE LET L == CHOOSE l \in lengths : \A m \in lengths : m <= l
          IN pt[symbol][L] * WaysOver(g, symbol, L)

RECURSIVE TotalPayment(_, _, _)
TotalPayment(g, pt, symbols) ==
  IF symbols = {} THEN 0
  ELSE LET s == CHOOSE x \in symbols : TRUE
       IN Payment(g, pt, s) + TotalPayment(g, pt, symbols \ {s})

\* C4: evaluate_ways_win returns the sum over the paying symbols of one
\* payment each, the one of the longest length in 3..R present in the
\* paytable times the ways over that many reels.
C4_OnePaymentPerSymbol ==
  pc = "evaluated" =>
    base_win = TotalPayment(grid, PAYTABLE, PaidSymbols(PAYTABLE))

\* A and B both run over four reels: A is paid its entry for 3 (it has none
\* for 4) over three reels, B its entry for 4
C4_Witness ==
  /\ pc = "evaluated"
  /\ PAYTABLE = PaytableOdd
  /\ RunOf(grid, "A") = 4
  /\ RunOf(grid, "B") = 4
  /\ WaysOver(grid, "A", 3) = 2
  /\ WaysOver(grid, "B", 4) = 4
  /\ base_win = 12500 * 2 + 10000 * 4

Buckets ==
  {"0x", "0-1x", "1-2x", "2-5x", "5-20x", "20-100x", "100-1000x", "1000x+"}

\* the bucket of a win, in hundredths of the bet: [lo, hi) with 0 on its own
BucketOf(win) ==
  CHOOSE b \in Buckets :
    \/ b = "0x" /\ win = 0
    \/ b = "0-1x" /\ win # 0 /\ win < 100
    \/ b = "1-2x" /\ 100 <= win /\ win < 200
    \/ b = "2-5x" /\ 200 <= win /\ win < 500
    \/ b = "5-20x" /\ 500 <= win /\ win < 2000
    \/ b = "20-100x" /\ 2000 <= win /\ win < 10000
    \/ b = "100-1000x" /\ 10000 <= win /\ win < 100000
    \/ b = "1000x+" /\ 100000 <= win

RECURSIVE SumOver(_, _)
SumOver(f, keys) ==
  IF keys = {} THEN 0
  ELSE LET k == CHOOSE x \in keys : TRUE
       IN f[k] + SumOver(f, keys \ {k})

BucketsAccount ==
  /\ DOMAIN stats.win_distribution \subseteq Buckets
  /\ SumOver(stats.win_distribution, DOMAIN stats.win_distribution) = TrackedSpins
  /\ \A k \in 1..Len(runs) :
       runs[k].outcome = "returned" =>
         LET pct == runs[k].win_distribution
         IN /\ \A b \in DOMAIN pct : pct[b].den = runs[k].total_spins
            /\ SumOver([b \in DOMAIN pct |-> pct[b].num], DOMAIN pct)
                 = 100 * runs[k].total_spins

CountIn(dist, b) == IF b \in DOMAIN dist THEN dist[b] ELSE 0

OneBucketPerSpin ==
  pc = "track" =>
    \A b \in Buckets :
      CountIn(stats'.win_distribution, b) =
        CountIn(stats.win_distribution, b)
          + (IF b = BucketOf(total_spin_win) THEN 1 ELSE 0)

\* C5: each spin's total win is counted in exactly one of the eight buckets,
\* a win on a boundary in the higher one; the bucket counts sum to the spins
\* taken into the statistics and the reported percentages sum to 100.
C5_BucketsPartitionSpins == []BucketsAccount /\ [][OneBucketPerSpin]_vars

\* a finished run of two spins, one win of exactly 1x (a boundary) and one of
\* 1000x or more
C5_Witness ==
  /\ pc = "done"
  /\ num_spins = 2
  /\ stats.win_distribution = ("1-2x" :> 1) @@ ("1000x+" :> 1)

\* C6: every run of run_simulation(num_spins) in the process reports what the
\* first one reported (same measured RTP, same hit frequency).
C6_RepeatedRunsIdentical ==
  \A k \in 1..Len(runs) :
    /\ runs[k].outcome = runs[1].outcome
    /\ runs[k].outcome = "returned" =>
         /\ runs[k].measured_rtp = runs[1].measured_rtp
         /\ runs[k].hit_frequency_pct = runs[1].hit_frequency_pct

\* C10: run_simulation called with zero spins returns a result (RTP 0,
\* flagged invalid) and does not raise.
C10_ZeroSpinsReturns ==
  (num_spins = 0 /\ pc # "loop") =>
    /\ pc = "done"
    /\ runs[Len(runs)].outcome = "returned"
    /\ runs[Len(runs)].measured_rtp.num = 0

\* the optimizer has measured at least one batch
Measured == opt_pc \in {"loop", "measured", "final", "done"} /\ simulated # << >>

\* the result has been printed
Returned == opt_pc = "done"

\* the batch with the smallest deviation, the earliest one on a tie
ArgMin ==
  CHOOSE k \in 1..Len(simulated) :
    /\ \A j \in 1..Len(simulated) :
         QLeq(simulated[k].deviation, simulated[j].deviation)
    /\ \A j \in 1..(k - 1) :
         QLess(simulated[k].deviation, simulated[j].deviation)

\* some batch measured a deviation within the tolerance
SomeBatchWithin ==
  \E k \in 1..Len(simulated) :
    QLeq(simulated[k].deviation, cfg.TOLERANCE)

\* C7: a result with status converged reports a final deviation
\* (|final_rtp - target_rtp|) that is at most the tolerance.
C7_ConvergedWithinTolerance ==
  (Returned /\ result.status = "converged") =>
    QLeq(result.deviation, cfg.TOLERANCE)

\* C8: when no batch is within the tolerance the optimizer runs exactly
\* max_iterations batches and returns best_effort with the best strips it
\* found; and the status is converged exactly when some batch was within
\* the tolerance.
C8_BestEffortAfterAllBatches ==
  Returned =>
    /\ ~SomeBatchWithin =>
         /\ result.iterations = cfg.MAX_ITERS
         /\ Len(simulated) = cfg.MAX_ITERS
         /\ result.status = "best_effort"
         /\ simulated # << >> =>
              result.optimized_reel_strips = simulated[ArgMin].reels
    /\ result.status = "converged" <=> SomeBatchWithin

\* C9: once a batch has been measured, best_reels are the strips that were
\* simulated in the batch of the smallest deviation (the earliest on a tie)
\* and best_deviation is that smallest deviation.
C9_BestSnapshotIsMinimum ==
  Measured =>
    /\ best_reels = simulated[ArgMin].reels
    /\ QLeq(best_deviation, simulated[ArgMin].deviation)
    /\ QLeq(simulated[ArgMin].deviation, best_deviation)

\* the symbols a configuration defines: those on its reel strips, the wild
\* and the scatter
DefinedSymbols(m) ==
  {WILD_SYMBOL, SCATTER_SYMBOL} \cup
    UNION { {m.REEL_STRIPS[r][k] : k \in 1..Len(m.REEL_STRIPS[r])} :
              r \in 1..Len(m.REEL_STRIPS) }

\* an empty reel strip, a non-positive grid dimension or a paytable entry for
\* an undefined symbol
InvalidConfiguration ==
  \/ \E r \in 1..Len(model.REEL_STRIPS) : model.REEL_STRIPS[r] = << >>
  \/ model.NUM_REELS <= 0
  \/ model.NUM_ROWS <= 0
  \/ \E s \in DOMAIN PAYTABLE : s \notin DefinedSymbols(model)

\* C11: under an invalid configuration run_simulation accumulates no
\* statistics and draws no spin, and once it has moved it has raised
\* ConfigurationError.
C11_InvalidConfigurationRejected ==
  InvalidConfiguration =>
    /\ stats = NewStats
    /\ grid = << >> /\ runs \in {<< >>, <<[outcome |-> "ConfigurationError"]>>}
    /\ pc \in {"loop", "raised"}
    /\ (pc = "raised" => runs # << >>)

\* C12: every completed run reports a 99% confidence interval whose margin
\* is a well-defined number that is not negative, so that the interval
\* contains the measured RTP.
C12_ConfidenceIntervalDefined ==
  \A k \in 1..Len(runs) :
    runs[k].outcome = "returned" =>
      /\ runs[k].rtp_confidence_interval_99.low # "nan"
      /\ runs[k].rtp_confidence_interval_99.high # "nan"

\* the label the thresholds 50, 100 and 150 give to a median of half_spins / 2
LabelOfHalves(half_spins) ==
  CASE half_spins < 100 -> "CRITICAL"
    [] half_spins >= 100 /\ half_spins < 200 -> "HIGH"
    [] half_spins >= 200 /\ half_spins < 300 -> "MEDIUM"
    [] half_spins >= 300 -> "LOW"

\* C13: the churn risk that the analysis derives is the label of the median
\* session spin count alone: CRITICAL below 50, HIGH from 50 and below 100,
\* MEDIUM from 100 and below 150, LOW from 150; it is one of the four labels.
C13_ChurnRiskByMedian ==
  player.pc = "analyzed" =>
    /\ player.median_spins.den = 2
    /\ player.churn_risk = LabelOfHalves(player.median_spins.num)
    /\ player.churn_risk \in {"CRITICAL", "HIGH", "MEDIUM", "LOW"}
    /\ (player.median_spins = Quot(98, 2) => player.churn_risk = "CRITICAL")
    /\ (player.median_spins = Quot(298, 2) => player.churn_risk = "MEDIUM")
    /\ (player.median_spins = Quot(302, 2) => player.churn_risk = "LOW")

\* a median of exactly 100 spins has been labelled
C13_Witness ==
  /\ player.pc = "analyzed"
  /\ player.median_spins = Quot(200, 2)
  /\ player.churn_risk = "MEDIUM"

\* C14: for every combination of the session aggregates and max_win the
\* analysis yields an engagement score, an integer from 0 to 100, and each
\* of the four weighted terms is at most its weight (30, 25, 25, 20).
C14_EngagementInRange ==
  player.pc \notin {"idle", "analyze"} =>
    /\ player.pc = "analyzed"
    /\ player.engagement \in 0..100
    /\ QLeq(SessionTerm(player.median_spins), Quot(30, 1))
    /\ QLeq(BonusTerm(player.mean_bonuses), Quot(25, 1))
    /\ QLeq(DryTerm(player.avg_dry), Quot(25, 1))
    /\ QLeq(WinTerm(player.max_biggest_win, player.MAX_WIN).value, Quot(20, 1))

\* the cells of the grid that show the scatter, wherever they are
ScatterCells(g) ==
  {c \in (1..NUM_REELS) \X (1..NUM_ROWS) : g[c[1]][c[2]] = SCATTER_SYMBOL}

\* the trigger check of a base spin awards the table's number of free spins
\* when the number of scatter cells is a key of the table, and none otherwise
AwardsByTable ==
  pc = "spun" =>
    LET n == Cardinality(ScatterCells(grid))
    IN  /\ scatter_count = n
        /\ IF n \in DOMAIN FREE_SPIN_TRIGGER
           THEN /\ pc' = "free"
                /\ remaining' = FREE_SPIN_TRIGGER[n]
                /\ stats'.free_spin_triggers = stats.free_spin_triggers + 1
           ELSE /\ pc' = "track"
                /\ stats' = stats

\* C15: a base spin awards free spins exactly when its scatter count, taken
\* over all cells of the grid, is a key of the free-spin trigger table, and
\* then as many as the table gives for that count.
C15_TriggerByTable == [][AwardsByTable]_vars

\* the batch just measured is within the tolerance: the loop is left, with
\* no adjustment of the working strips and no further batch
StopsWhenWithin ==
  (opt_pc = "measured" /\ QLeq(deviation, cfg.TOLERANCE)) =>
    /\ opt_pc' = "final"
    /\ reel_strips' = reel_strips
    /\ history' = history

\* once the loop is left the history is final
HistoryClosed ==
  opt_pc \in {"final", "done"} => history' = history

\* the history numbers its entries 1..n, n <= max_iterations, one entry per
\* batch, and the result reports n iterations
HistoryNumbered ==
  /\ Len(history) = Len(simulated)
  /\ Len(history) <= cfg.MAX_ITERS
  /\ \A k \in 1..Len(history) : history[k].iteration = k
  /\ Returned => (result.iterations = Len(history) /\ result.history = history)

\* every entry of the history before the last records a deviation above the
\* tolerance
EarlierRecordedAbove ==
  \A k \in 1..(Len(history) - 1) : ~QLeq(history[k].deviation, cfg.TOLERANCE)

\* every batch before the last measured a deviation above the tolerance, and
\* the history records each measured deviation rounded to four decimals
EarlierMeasuredAbove ==
  /\ \A k \in 1..(Len(simulated) - 1) :
       ~QLeq(simulated[k].deviation, cfg.TOLERANCE)
  /\ \A k \in 1..Len(history) :
       history[k].deviation = Round4(simulated[k].deviation)

\* C16 as stated: the optimizer stops at the first batch whose deviation is
\* within the tolerance, and in the history every entry before the last has
\* a (recorded) deviation above the tolerance, the iterations are numbered
\* 1..n with n <= max_iterations and the result reports n.
C16_StopsAtFirstWithin ==
  /\ [](opt_pc # "idle" => (HistoryNumbered /\ EarlierRecordedAbove))
  /\ [][StopsWhenWithin /\ HistoryClosed]_vars

\* C16 amended: as above, with the deviation measured by every batch before
\* the last above the tolerance; the history records each measured
\* deviation rounded to four decimals.
C16_StopsAtFirstMeasuredWithin ==
  /\ [](opt_pc # "idle" => (HistoryNumbered /\ EarlierMeasuredAbove))
  /\ [][StopsWhenWithin /\ HistoryClosed]_vars

\* a run that stopped at its second batch of three
C16_Witness ==
  /\ Returned
  /\ cfg.MAX_ITERS = 3
  /\ result.iterations = 2
  /\ QLeq(simulated[2].deviation, cfg.TOLERANCE)
  /\ ~QLeq(simulated[1].deviation, cfg.TOLERANCE)

\* round(a / b) for a >= 0 and b > 0, a half going to the even neighbour
RoundQuotient(a, b) ==
  LET q == a \div b
      r == a % b
  IN  IF 2 * r > b THEN q + 1
      ELSE IF 2 * r < b THEN q
      ELSE IF q % 2 = 0 THEN q ELSE q + 1

\* max(1, round(|deviation| * 2 / (1 + iteration * 0.3)))
RoundedStrength(dev, iteration) ==
  Max(1, RoundQuotient(Abs(dev.num) * 2 * 10, dev.den * (10 + 3 * iteration)))

\* the strength is at least 1 and, for the deviation just measured, does not
\* grow with the iteration
StrengthDamped ==
  (opt_pc = "measured" /\ ~QLeq(deviation, cfg.TOLERANCE)) =>
    /\ Strength(deviation, opt_i) >= 1
    /\ \A j \in 0..MaxIters, k \in 0..MaxIters :
         j <= k => Strength(deviation, j) >= Strength(deviation, k)

\* C17: when a batch's deviation exceeds the tolerance, the strength that
\* the adjustment uses is max(1, round(|rtp - target| * 2 /
\* (1 + iteration * 0.3))), at least 1 and not growing with the iteration.
C17_StrengthRounded ==
  /\ StrengthDamped
  /\ (opt_pc = "measured" /\ ~QLeq(deviation, cfg.TOLERANCE)) =>
       Strength(deviation, opt_i) = RoundedStrength(deviation, opt_i)

\* [len(r) for r in reels]
Lengths(reels) == [r \in 1..Len(reels) |-> Len(reels[r])]

\* C18: after any sequence of adjustments every reel of the working strips
\* and of the best snapshot has as many stops as in the input strips, and
\* the result's reel_lengths are the input lengths.
C18_ReelLengthsKept ==
  opt_pc # "idle" =>
    /\ Lengths(reel_strips) = Lengths(cfg.reel_strips)
    /\ Lengths(best_reels) = Lengths(cfg.reel_strips)
    /\ Returned => result.reel_lengths = Lengths(cfg.reel_strips)

\* the highest payout multiplier of a paytable entry, 0 if it has none
RECURSIVE MaxPay(_)
MaxPay(pays) ==
  IF DOMAIN pays = {} THEN 0
  ELSE LET n == CHOOSE x \in DOMAIN pays : TRUE
           rest == [y \in DOMAIN pays \ {n} |-> pays[y]]
       IN  Max(pays[n], MaxPay(rest))

\* the symbols of the paytable that fewer than three others pay more than
TopThree(pt) ==
  { pt[k].sym : k \in { k \in 1..Len(pt) :
      Cardinality({ j \in 1..Len(pt) :
                      MaxPay(pt[j].pays) > MaxPay(pt[k].pays) }) < 3 } }

\* the symbols a step puts on some reel of the working strips
Inserted ==
  { s \in Elements(Keys(cfg.paytable)) :
      \E r \in 1..Len(reel_strips) :
        Count(reel_strips'[r], s) > Count(reel_strips[r], s) }

\* the symbols a step takes from some reel of the working strips
Taken ==
  { s \in Elements(Keys(cfg.paytable)) :
      \E r \in 1..Len(reel_strips) :
        Count(reel_strips'[r], s) < Count(reel_strips[r], s) }

\* an adjustment for an RTP that is too high takes only symbols of the three
\* highest payouts and inserts none of them; one for an RTP that is too low
\* inserts only such symbols
AdjustsByPayout ==
  (opt_pc = "measured" /\ opt_pc' = "loop") =>
    IF rtp.num > cfg.TARGET_RTP * rtp.den
    THEN /\ Taken \subseteq TopThree(cfg.paytable)
         /\ Inserted \cap TopThree(cfg.paytable) = {}
         /\ Inserted \cap {WILD_SYMBOL, SCATTER_SYMBOL} = {}
    ELSE Inserted \subseteq TopThree(cfg.paytable)

\* C19: the symbols the optimizer treats as high-pay are the three symbols
\* of the highest payout multipliers, whatever the order of the paytable,
\* and a symbol inserted when the RTP is too high is never one of them (nor
\* the wild or the scatter).
C19_HighPayByPayout == [][AdjustsByPayout]_vars

\* a paytable of the simulation as the optimizer receives it: a list of
\* entries (in some order; simulate adds up over all of them)
RECURSIVE AsEntries(_)
AsEntries(pt) ==
  IF DOMAIN pt = {} THEN << >>
  ELSE LET s == CHOOSE x \in DOMAIN pt : TRUE
       IN  <<[sym |-> s, pays |-> pt[s]]>>
             \o AsEntries([y \in DOMAIN pt \ {s} |-> pt[y]])

\* the grid dimensions of the simulation as the optimizer's COLS and ROWS
GridDimensions == [COLS |-> NUM_REELS, ROWS |-> NUM_ROWS]

\* C20: on the same drawn grid and paytable the optimizer's simulate credits
\* the win that evaluate_ways_win credits.
C20_SimulateAgreesWithEvaluate ==
  pc = "evaluated" =>
    WindowWin(grid, AsEntries(PAYTABLE), GridDimensions) = base_win


\* the free spins awarded for a number of scatter cells: the table's entry
\* when retrigger is enabled and the number is a key of the table
RetriggerAward(g) ==
  LET n == Cardinality(ScatterCells(g))
  IN  IF FREE_SPIN_RETRIGGER /\ n \in DOMAIN FREE_SPIN_TRIGGER
      THEN FREE_SPIN_TRIGGER[n]
      ELSE 0

\* one free spin: the counter goes down by one and up by the award of the
\* grid just drawn, and the accumulated win only gains the win of that grid
FreeSpinAddsAward ==
  (pc = "free" /\ pc' = "free") =>
    /\ remaining' = remaining - 1 + RetriggerAward(grid')
    /\ fs_total_win' = fs_total_win + base_win'
    /\ fs_total_win' >= fs_total_win

\* without retrigger the cascade returns after exactly the awarded number
NoRetriggerPlaysAwarded ==
  (pc = "free" /\ pc' = "returned" /\ ~FREE_SPIN_RETRIGGER) =>
    /\ fs_played = num_spins
    /\ remaining = 0

\* C21: a free spin whose scatter count is a key of the trigger table adds
\* its award to the free spins left (left after = left before - 1 + award)
\* and keeps the win accumulated so far; with retrigger disabled every free
\* spin takes exactly one from the counter and N awarded spins play exactly N
C21_RetriggerAddsToRemaining ==
  [][FreeSpinAddsAward /\ NoRetriggerPlaysAwarded]_vars


\* C22: every cascade of free spins terminates, for every trigger table and
\* reel configuration: the counter of free spins left reaches zero after
\* finitely many free spins and run_free_spins returns, exactly at zero
C22_CascadeTerminates ==
  /\ [](pc = "returned" => remaining = 0)
  /\ [](remaining >= 0)
  /\ <>(pc = "returned")


\* after every base spin the total won is the base-game part plus the
\* feature part; inside a base spin the spin's own total is still to come
WonSplitsInTwo ==
  /\ pc = "loop" => stats.total_won = stats.base_game_won + stats.feature_won
  /\ pc \in {"spun", "free", "track"} =>
       stats.total_won + total_spin_win
         = stats.base_game_won + stats.feature_won

\* the base win is the evaluation of the base grid, not multiplied
BaseWinPlain ==
  (pc = "loop" /\ pc' = "spun") =>
    /\ total_spin_win' = EvaluateWaysWin(grid', PAYTABLE)
    /\ stats'.base_game_won = stats.base_game_won + total_spin_win'

\* each free spin, retriggered ones included, adds the evaluation of a grid
\* times the free-spin multiplier to the feature win
FreeSpinWinMultiplied ==
  (pc = "free" /\ pc' = "free") =>
    \E starts \in StartPositions :
      fs_total_win' = fs_total_win
        + EvaluateWaysWin(SpinReels(starts), PAYTABLE) * FREE_SPIN_MULTIPLIER

\* the whole feature win joins the spin's total and the feature part
FeatureWinJoins ==
  (pc = "free" /\ pc' = "track") =>
    /\ total_spin_win' = total_spin_win + fs_total_win
    /\ stats'.feature_won = stats.feature_won + fs_total_win

\* the statistics ingest the spin's total: base win plus whole feature win
TotalIngested ==
  (pc = "track" /\ pc' = "loop") =>
    stats'.total_won = stats.total_won + total_spin_win

\* C23: the total win of a base spin that the statistics ingest is its base
\* win (not multiplied) plus the whole feature win (the sum over every free
\* spin of the cascade of win times multiplier), and after every base spin
\* total_won = base_game_won + feature_won
C23_TotalIsBasePlusFeature ==
  /\ []WonSplitsInTwo
  /\ [][BaseWinPlain /\ FreeSpinWinMultiplied /\ FeatureWinJoins
          /\ TotalIngested]_vars

\* a base spin that won and whose retriggered cascade won has been ingested
C23_Witness ==
  /\ pc = "loop"
  /\ i = 1
  /\ stats.base_game_won > 0
  /\ stats.feature_won > stats.base_game_won
  /\ stats.free_spin_triggers = 1
  /\ stats.total_won = stats.base_game_won + stats.feature_won


\* the start offsets: one per reel, each within its strip
Offsets(m) ==
  {st \in [1..m.NUM_REELS -> 0..3] :
     \A r \in 1..m.NUM_REELS : st[r] \in 0..(Len(m.REEL_STRIPS[r]) - 1)}

\* the grid is cut from the strips at the given offsets, with wraparound:
\* cell k (from 0) of column r is strip[(start + k) mod len]
CutAt(m, g, st) ==
  /\ DOMAIN g = 1..m.NUM_REELS
  /\ \A r \in 1..m.NUM_REELS :
       /\ DOMAIN g[r] = 1..m.NUM_ROWS
       /\ \A k \in 0..(m.NUM_ROWS - 1) :
            g[r][k + 1]
              = m.REEL_STRIPS[r][((st[r] + k) % Len(m.REEL_STRIPS[r])) + 1]

\* the grid just spun has the model's dimensions and is cut at some offsets
GridCutFromStrips ==
  pc = "spun" => \E st \in Offsets(model) : CutAt(model, grid, st)

\* before a spin every vector of offsets can be the one drawn
EveryOffsetPossible ==
  (pc = "loop" /\ i < num_spins /\ ~SpinRaises(model)) =>
    \A st \in Offsets(model) :
      ENABLED (ConfigSpin /\ CutAt(model, grid', st))

\* C24: spin_reels returns NUM_REELS columns of NUM_ROWS cells, column r
\* holding NUM_ROWS cyclically consecutive symbols of strip r from an offset
\* in 0..len-1; every offset is a possible start; the strips are unchanged
C24_SpinReelsCutsStrips ==
  /\ [](GridCutFromStrips /\ EveryOffsetPossible)
  /\ [][model' = model]_vars

\* a column that wraps around the end of its strip
C24_Witness ==
  /\ pc = "spun"
  /\ model = DefaultModel
  /\ grid[2] = <<"X", "A">>
  /\ grid[3] = <<"SC", "A">>
  /\ Len(grid) = NUM_REELS


\* a batch (simulate and its bookkeeping) leaves the working strips as they
\* are; the best strips are either kept or a copy of the working strips
BatchKeepsStrips ==
  (opt_pc = "loop" /\ opt_pc' = "measured") =>
    /\ reel_strips' = reel_strips
    /\ given_reels' = given_reels
    /\ best_reels' \in {best_reels, reel_strips}
    /\ simulated'[Len(simulated')].reels = reel_strips

\* the final batch on the best strips leaves every strip as it is
FinalKeepsStrips ==
  opt_pc' = "done" =>
    reel_strips' = reel_strips /\ best_reels' = best_reels

\* the working strips change only between two batches, through adjust_reels
StripsChangeBetweenBatches ==
  reel_strips' # reel_strips =>
    /\ opt_pc = "measured"
    /\ opt_pc' = "loop"
    /\ reel_strips' \in
         adjust_reels(reel_strips, rtp, cfg.TARGET_RTP, opt_i, cfg)

\* adjust_reels leaves the list it was given as it was, and the strips kept
\* elsewhere (the best strips, the input of the run) with it
AdjustKeepsArgument ==
  (opt_pc = "measured" /\ opt_pc' = "loop") =>
    /\ given_reels' = reel_strips
    /\ best_reels' = best_reels
    /\ cfg' = cfg
    /\ (opt_i = 0 => given_reels' = cfg.reel_strips)

\* C25: reel strips are never modified during a batch; the optimizer changes
\* them only between two batches through adjust_reels, which returns a new
\* copy and leaves the strips it was given, and the input strips, unchanged
C25_StripsFrame ==
  [][BatchKeepsStrips /\ FinalKeepsStrips /\ StripsChangeBetweenBatches
       /\ AdjustKeepsArgument /\ model' = model]_vars

\* an adjustment returned strips that differ from the ones it was given, and
\* a batch has run on them
C25_Witness ==
  /\ opt_pc = "measured"
  /\ opt_i = 1
  /\ reel_strips # given_reels
  /\ given_reels = cfg.reel_strips
  /\ simulated[2].reels = reel_strips


\* the sessions recorded so far
Finished == 1..Len(player.sessions)

\* how each finished session left its loop, by the balance it ended with
EndsOneWay(balance_of(_)) ==
  \A k \in Finished :
    LET s == player.sessions[k]
        c == player.closed[k]
    IN  /\ c.exit \in {"bust", "big_win", "fatigue"}
        /\ c.exit = "bust" => balance_of(k) < player.BET
        /\ c.exit = "big_win" => balance_of(k) >= 3 * player.BUDGET
        /\ c.exit = "fatigue" => s.spins >= FatigueSpins
        /\ \/ s.busted
           \/ balance_of(k) >= 3 * player.BUDGET
           \/ s.spins >= FatigueSpins
        /\ s.busted <=> balance_of(k) < player.BET

\* the balance the session ended with
EndBalance(k) == player.closed[k].balance

\* the final balance the session's record shows
RecordedBalance(k) == player.sessions[k].final_balance

\* a spin is played only from a balance that covers the bet
SpinsOnlyWhenCovered ==
  (player.pc = "while" /\ player'.pc \in {"quit", "raised"}) =>
    /\ player.balance >= player.BET
    /\ player'.spins = player.spins + 1

\* a session whose loop is left with the balance below the bet is not
\* continued
NoSpinWhenBelowBet ==
  (player.pc = "while" /\ player.balance < player.BET) =>
    (player'.pc = "ended" /\ player'.spins = player.spins)

\* C26 (as stated): a session ends in exactly one of three ways: bust, quit
\* after the balance reached three budgets, fatigue quit; every finished
\* session is busted or has a final balance of at least three budgets or at
\* least the fatigue number of spins; no spin is played once the balance is
\* below the bet; busted is true exactly when the final balance, as the
\* session's record shows it, is below the bet
C26_SessionEndsOneOfThreeWays ==
  /\ [](player.pc # "idle" => EndsOneWay(RecordedBalance))
  /\ [][SpinsOnlyWhenCovered /\ NoSpinWhenBelowBet]_vars

\* C26 (amended): the same, with the balance the session ended with in place
\* of the recorded final balance, which is that balance rounded to two
\* decimals
C26_SessionEndsOneOfThreeWaysByBalance ==
  /\ [](player.pc # "idle" =>
          /\ EndsOneWay(EndBalance)
          /\ \A k \in Finished :
               RecordedBalance(k) = RoundTo(EndBalance(k), 10))
  /\ [][SpinsOnlyWhenCovered /\ NoSpinWhenBelowBet]_vars

\* a session that went bust at a balance just below the bet, which its
\* record shows rounded to the bet
C26_Witness ==
  /\ player.pc = "sessions_done"
  /\ Len(player.sessions) = 1
  /\ player.closed[1].exit = "bust"
  /\ player.closed[1].balance = 996
  /\ player.BET = 1000
  /\ player.sessions[1].busted
  /\ player.sessions[1].final_balance = 1000


\* C27: the max dry streak recorded for a session is the length of the
\* longest run of consecutive non-winning spins anywhere in the session, a
\* run still open when the session ends included
C27_MaxDryStreakIsLongestRun ==
  player.pc # "idle" =>
    \A k \in Finished :
      player.sessions[k].max_dry_streak = player.closed[k].longest_dry


\* what a step of the spin paid into the balance
Paid == player'.balance - (player.balance - player.BET)

\* a spin that won: a base win when no bonus was counted, else a bonus win
BaseWon ==
  /\ player.pc = "while"
  /\ player'.pc = "quit"
  /\ player'.wins = player.wins + 1
  /\ player'.bonuses_triggered = player.bonuses_triggered

BonusWon ==
  /\ player.pc = "while"
  /\ player'.pc = "quit"
  /\ player'.bonuses_triggered = player.bonuses_triggered + 1

\* the floors and the cap of a win, in thousandths: 0.1 x bet, 1 x bet,
\* max_win x bet
WinsWithinBounds ==
  /\ BaseWon => 10 * Paid >= player.BET
  /\ BonusWon => Paid >= player.BET
  /\ (BaseWon \/ BonusWon) => Paid <= player.MAX_WIN * player.BET

\* C28: a base win is at least 0.1 x bet, a bonus win at least 1 x bet, and
\* no win exceeds max_win x bet, for every draw and every max_win; the
\* biggest win recorded for a session never exceeds max_win
C28_WinsFlooredAndCapped ==
  /\ [][WinsWithinBounds]_vars
  /\ [](player.pc # "idle" =>
          /\ player.biggest_win <= player.MAX_WIN * 1000
          /\ \A k \in Finished :
               player.sessions[k].biggest_win_x <= player.MAX_WIN * 1000)


\* a session is in progress or has just ended
InSession == player.pc \in {"while", "quit", "ended", "raised"}

\* the counters of the session in progress, with a positive bet
CountersConsistent ==
  (InSession /\ player.BET > 0) =>
    /\ player.balance >= 0
    /\ player.spins = player.deducted
    /\ player.bonuses_triggered <= player.wins
    /\ player.wins <= player.spins
    /\ player.near_misses <= player.spins

\* the same for the recorded sessions
RecordsConsistent ==
  (player.pc # "idle" /\ player.BET > 0) =>
    \A k \in Finished :
      LET s == player.sessions[k]
      IN  /\ s.final_balance >= 0
          /\ s.spins = player.closed[k].deducted
          /\ s.bonuses <= s.wins
          /\ s.wins <= s.spins
          /\ s.near_misses <= s.spins

\* the bet is deducted only from a balance that covers it, once per spin
BetDeductedWhenCovered ==
  (player.pc # "idle" /\ player.BET > 0
     /\ player'.deducted = player.deducted + 1) =>
    /\ player.balance >= player.BET
    /\ player'.spins = player.spins + 1
    /\ player'.balance >= player.balance - player.BET

\* each session starts from the budget with every counter at zero
StartsFromBudget ==
  (player.pc = "for" /\ player'.pc = "while") =>
    /\ player'.balance = player.BUDGET
    /\ player'.spins = 0
    /\ player'.wins = 0
    /\ player'.bonuses_triggered = 0
    /\ player'.max_dry_streak = 0
    /\ player'.current_dry = 0
    /\ player'.biggest_win = 0
    /\ player'.near_misses = 0

AllSessionsRecorded ==
  /\ player.pc = "sessions_done"
  /\ Len(player.sessions) = player.N_SESSIONS

\* C30: every session eventually ends, for all parameter values (a balance
\* that stays at or above the bet, a bet of zero), given that a quit that
\* is offered again and again is eventually taken; and the whole simulation
\* finishes after exactly n_sessions sessions
C30_SessionsTerminate ==
  /\ (player.pc = "while") ~> (player.pc = "for")
  /\ <>AllSessionsRecorded
  /\ [](Len(player.sessions) <= player.N_SESSIONS)

====
